---- MODULE Spec2Model ----
(***************************************************************************)
(* Model of the Psyclinic application core (src/main.py, src/game.py):     *)
(* context trimming (fit_to_token_limit), turn validation (chat), the      *)
(* session store (create_session / verify_session / logout) and the bulk   *)
(* analysis loop of generate_report.                                       *)
(*                                                                         *)
(* Token counts are floats in the source (word_count * 1.3); the model     *)
(* keeps them exact by counting in tenths of a token.                      *)
(***************************************************************************)
EXTENDS Integers, Sequences, FiniteSets, TLC

VARIABLES
    fit_in,      \* fit_to_token_limit: the messages argument
    fit_prompt,  \* fit_to_token_limit: the system_prompt argument
    fit_out,     \* fit_to_token_limit: what the call produced
    fit_pc,      \* "ready" before the call, "done" after it
    redis_client,    \* TRUE: the Redis backend answered the ping at startup
    active_sessions, \* the in-process map of the fallback backend
    redis_store,     \* the keys of the Redis backend, each with its expiry time
    now,             \* time.time(), in seconds
    ticks,           \* how often the clock has advanced
    issued,          \* how many session tokens create_session has generated
    created,         \* history: token -> the session_data it was created with
    logged_out,      \* history: the tokens a logout was performed for
    last,            \* the latest session operation and what it returned
    bedrock_client,  \* TRUE: the Bedrock client was created at startup
    chat_request,    \* chat: the ChatRequest (history, persona_prompt)
    chat_pc,         \* chat: "received", "rejected", "awaiting", "replied", "failed"
    chat_messages,   \* chat: the local variable messages where the handler stands
    chat_steps,      \* chat: the stages the handler has completed, in order
    chat_error,      \* chat: the HTTPException raised, if any
    chat_reply,      \* chat: the reply returned, if any
    rep_history,     \* generate_report: request.chat_history
    rep_pc,          \* generate_report: "main", "attempt", "backoff", "pacing",
                     \*                  "done", "failed"
    rep_report,      \* generate_report: the local variable report
    rep_i,           \* generate_report: the loop index i (counted from 1)
    rep_attempt,     \* generate_report: the retry loop's variable attempt
    retry_delay,     \* generate_report: the local variable retry_delay
    improvements,    \* generate_report: the local variable improvements
    rep_error,       \* generate_report: the HTTPException the request ends with
    rep_calls,       \* history: the model calls the report request has made
                     \*          and how many of them have not ended yet
    cur,             \* history: calls, backoff waits and outcomes of the
                     \*          utterance analysed last
    auth,            \* the latest request to a protected route and what
                     \* get_current_user made of its cookie
    start_pc,        \* start_session: "idle", or "backstory" once the handler
                     \*                runs and awaits the backstory call
    sends,           \* how often botocore has sent the request of the
                     \* invoke_model call in flight again
    backstory,       \* start_session: the local variable backstory
    pool_submitted,  \* executor: how many calls were handed to run_in_executor
    pool_queue,      \* executor: the work queue, the oldest call first
    pool_running,    \* executor: the calls its worker threads are executing
    pool_done,       \* executor: the calls that have returned or raised
    loop_owner,      \* event loop: the request whose handler is running on
                     \* it, 0 when it is free to run any handler
    tasks,           \* event loop: request -> what it asks for and where its
                     \* handler stands
    chats            \* chat: the requests received, each with the locals of
                     \* its handler (messages, system_prompt) and where the
                     \* handler stands

fit_vars == <<fit_in, fit_prompt, fit_out, fit_pc>>

session_vars == <<redis_client, active_sessions, redis_store, now, ticks, issued,
                  created, logged_out, last>>

chat_vars == <<bedrock_client, chat_request, chat_pc, chat_messages, chat_steps,
               chat_error, chat_reply>>

report_vars == <<rep_history, rep_pc, rep_report, rep_i, rep_attempt, retry_delay,
                 improvements, rep_error, rep_calls, cur>>

gate_vars == <<auth, start_pc>>

sdk_vars == <<sends>>

pool_vars == <<pool_submitted, pool_queue, pool_running, pool_done>>

loop_vars == <<loop_owner, tasks>>

rest_vars == <<pool_vars, loop_vars, chats>>

side_vars == <<backstory, rest_vars>>

vars == <<fit_vars, session_vars, chat_vars, report_vars, gate_vars, sdk_vars,
          side_vars>>

(***************************************************************************)
(* Program constants.                                                      *)
(***************************************************************************)
MAX_TOKENS_CHAT == 500
MAX_TOTAL_TOKENS == 10000
SESSION_TTL == 86400

(***************************************************************************)
(* Strings.  A text is a run of n words of k letters joined by single      *)
(* blanks, of which the first `cut` characters are kept, followed by       *)
(* `dots` full stops.  The family is closed under the two string           *)
(* operations of fit_to_token_limit: content[:max_chars] and + "...".      *)
(***************************************************************************)
FullLen(n, k) == IF n = 0 THEN 0 ELSE n * k + n - 1

Words(n, k) == [n |-> n, k |-> k, cut |-> FullLen(n, k), dots |-> 0]

StrLen(t) == t.cut + t.dots

\* text[:m]
Slice(t, m) ==
    IF m >= t.cut + t.dots THEN t
    ELSE IF m <= t.cut THEN [t EXCEPT !.cut = m, !.dots = 0]
    ELSE [t EXCEPT !.dots = m - t.cut]

\* text + "..."
AppendEllipsis(t) == [t EXCEPT !.dots = @ + 3]

\* len(text.split()): the maximal runs of non-blank characters
WordCount(t) ==
    LET full == t.cut \div (t.k + 1)
        rem  == t.cut % (t.k + 1)
        base == full + (IF rem > 0 THEN 1 ELSE 0)
    IN  IF t.dots > 0 /\ rem = 0 THEN base + 1 ELSE base

\* count_tokens with encoder = None (tiktoken missing) or encode failing:
\* len(text.split()) * 1.3, here in tenths of a token.
count_tokens(t) == WordCount(t) * 13

(***************************************************************************)
(* fit_to_token_limit (src/main.py 321-345, src/game.py 278-302).          *)
(***************************************************************************)
RECURSIVE SumTokens(_)
SumTokens(msgs) ==
    IF msgs = <<>> THEN 0
    ELSE count_tokens(Head(msgs).content) + SumTokens(Tail(msgs))

\* Faulty variant: the kept messages returned newest first.
NoReverse(s) == s

\* list(reversed(kept))
Reverse(s) == [j \in 1..Len(s) |-> s[Len(s) + 1 - j]]

\* available = MAX_TOTAL_TOKENS - MAX_TOKENS_CHAT - system_tokens - 100, in tenths
available(system_prompt) ==
    (MAX_TOTAL_TOKENS - MAX_TOKENS_CHAT - 100) * 10 - count_tokens(system_prompt)

\* max_chars = int(available * 3.5)
max_chars(avail) == (avail * 35) \div 100

\* msg["content"] = msg["content"][:max_chars] + "..."
Truncate(msg, avail) ==
    [msg EXCEPT !.content = AppendEllipsis(Slice(msg.content, max_chars(avail)))]

\* Faulty variant: the reply reserve subtracted a second time in the loop's
\* overflow test.
RECURSIVE FitLoopReserveTwice(_, _, _, _, _)
FitLoopReserveTwice(messages, i, total, kept, avail) ==
    IF i = 0 THEN kept
    ELSE
        LET msg  == messages[i]
            over == total + count_tokens(msg.content) > avail - MAX_TOKENS_CHAT * 10
        IN  IF over /\ ~(max_chars(avail) > 50) THEN kept
            ELSE
                LET msg2   == IF over THEN Truncate(msg, avail) ELSE msg
                    kept2  == Append(kept, msg2)
                    total2 == total + count_tokens(msg2.content)
                IN  IF total2 > avail THEN kept2
                    ELSE FitLoopReserveTwice(messages, i - 1, total2, kept2, avail)

\* Faulty variant: a message that does not fit is passed over and the loop
\* goes on with the older ones.
RECURSIVE FitLoopSkips(_, _, _, _, _)
FitLoopSkips(messages, i, total, kept, avail) ==
    IF i = 0 THEN kept
    ELSE
        LET msg  == messages[i]
            over == total + count_tokens(msg.content) > avail
        IN  IF over THEN FitLoopSkips(messages, i - 1, total, kept, avail)
            ELSE FitLoopSkips(messages, i - 1, total + count_tokens(msg.content),
                              Append(kept, msg), avail)

\* The loop "for msg in reversed(messages)": i is the position of msg in
\* messages, total and kept are the loop's variables; the value is kept when
\* the loop ends (by exhaustion or by either break).
RECURSIVE FitLoop(_, _, _, _, _)
FitLoop(messages, i, total, kept, avail) ==
    IF i = 0 THEN kept
    ELSE
        LET msg  == messages[i]
            over == total + count_tokens(msg.content) > avail
        IN  IF over /\ ~(max_chars(avail) > 50) THEN kept
            ELSE
                LET msg2   == IF over THEN Truncate(msg, avail) ELSE msg
                    kept2  == Append(kept, msg2)
                    total2 == total + count_tokens(msg2.content)
                IN  IF total2 > avail THEN kept2
                    ELSE FitLoop(messages, i - 1, total2, kept2, avail)

\* Faulty variant: the minimum for available not enforced.
FitNoThreshold(messages, system_prompt) ==
    [status |-> "ok", detail |-> "",
     messages |-> Reverse(FitLoop(messages, Len(messages), 0, <<>>,
                                  available(system_prompt)))]

\* The result of a call: the configuration error, or the kept messages.
fit_to_token_limit(messages, system_prompt) ==
    IF available(system_prompt) < 500 * 10
    THEN [status |-> "error", detail |-> "System prompt too long", messages |-> <<>>]
    ELSE [status |-> "ok", detail |-> "",
          messages |-> Reverse(FitLoop(messages, Len(messages), 0, <<>>,
                                       available(system_prompt)))]

(***************************************************************************)
(* Inputs of the trimming specification.                                   *)
(***************************************************************************)
MaxMsgs == 3

Roles == {"user", "assistant"}

\* Message contents: short and long turns of five-letter words, and a long
\* turn of one-letter words (many tokens per character).
Contents == {Words(40, 5), Words(400, 5), Words(500, 5), Words(1000, 5), Words(3000, 1)}

\* System prompts: empty, one that leaves 560 tokens of room, one that leaves
\* 500.2 (just above the minimum of 500) and one that leaves 498.9.
Prompts == {Words(0, 5), Words(6800, 5), Words(6846, 5), Words(6847, 5)}

Message == [role : Roles, content : Contents]

Histories == UNION {[1..m -> Message] : m \in 0..MaxMsgs}

\* A long conversation of ten turns of 77 words (100.1 tokens) each, and
\* system prompts that leave 449.5 and 560 tokens of room.
TenTurns ==
    [j \in 1..10 |-> [role |-> IF j % 2 = 0 THEN "user" ELSE "assistant",
                      content |-> Words(77, 5)]]

TenTurnsPrompts == {Words(0, 5), Words(6800, 5), Words(6885, 5)}

NoResult == [status |-> "none", detail |-> "", messages |-> <<>>]

FitInit ==
    /\ \/ fit_in \in Histories /\ fit_prompt \in Prompts
       \/ fit_in = TenTurns /\ fit_prompt \in TenTurnsPrompts
    /\ fit_out = NoResult
    /\ fit_pc = "ready"

Fit ==
    /\ fit_pc = "ready"
    /\ fit_out' = fit_to_token_limit(fit_in, fit_prompt)
    /\ fit_pc' = "done"
    /\ UNCHANGED <<fit_in, fit_prompt>>
    /\ UNCHANGED <<session_vars, chat_vars, report_vars, gate_vars, sdk_vars,
                   side_vars>>

FitIdle ==
    /\ fit_in = <<>>
    /\ fit_prompt = Words(0, 5)
    /\ fit_out = NoResult
    /\ fit_pc = "idle"

(***************************************************************************)
(* Session store (src/main.py 129-184, 230-265).                           *)
(*                                                                         *)
(* A session token is the SHA-256 of subject, wall clock and 16 random     *)
(* bytes: the model generates the tokens 1, 2, ... in turn, so a token is  *)
(* never generated twice.  Token 0 stands for a missing cookie (None or    *)
(* the empty string), token -1 for a value that was never generated.       *)
(* The handlers that touch the store contain no await between reading and  *)
(* writing it, so each is one step of the event loop.                      *)
(***************************************************************************)
MaxTokens == 2
MaxTicks == 3

Emails == {"a@b.com", "c@d.com"}

None == "<None>"

MissingToken == 0
UnknownToken == 0 - 1

\* The values a request can carry in its session_token cookie.
CookieValues == {MissingToken, UnknownToken} \cup (1..issued)

\* How far the clock advances between two requests.
TickSteps == {SESSION_TTL \div 2}

\* Faulty variant: the key gone already at its expiry time.
RedisHasBeforeExpiry(token) ==
    token \in DOMAIN redis_store /\ now < redis_store[token].expire_at

\* Redis GET finds a key set with SETEX until its expiry time has passed.
RedisHas(token) ==
    token \in DOMAIN redis_store /\ ~(now > redis_store[token].expire_at)

\* session = json.loads(data)
RedisGet(token) == redis_store[token].data

Remove(map, token) == [t \in (DOMAIN map) \ {token} |-> map[t]]

Put(map, token, value) ==
    [t \in (DOMAIN map) \cup {token} |-> IF t = token THEN value ELSE map[t]]

\* Faulty variant: the TTL taken as one hour.
ExpiredAfterAnHour(session) == now - session.created_at > 3600

\* time.time() - session['created_at'] > 86400
Expired(session) == now - session.created_at > SESSION_TTL

\* What a Redis key can hold besides the json.dumps of a session_data: the
\* model marks in created_at a value that is not UTF-8 text, a text that is
\* not JSON and a JSON object without the key created_at, and with None as
\* email an object without the key email.
NotText == 0 - 3
NotJson == 0 - 2
NoKey == 0 - 1

\* redis_client.get returns the value: the client was made with
\* decode_responses=True and decodes it as UTF-8.
Decodes(data) == data.created_at # NotText

\* json.loads(data) returns and session['created_at'] is there.
HasCreatedAt(data) == data.created_at >= 0

\* session['email'] is there.
HasEmail(data) == data.email # None

\* "except: return None"
Except(exception) == None

\* verify_session, the branch "if redis_client".  The call of get is outside
\* the try block: what it raises, verify_session raises.
VerifyOnRedis(session_token) ==
    IF ~RedisHas(session_token) THEN None
    ELSE IF ~Decodes(RedisGet(session_token)) THEN "UnicodeDecodeError"
    ELSE IF RedisGet(session_token).created_at = NotJson THEN Except("JSONDecodeError")
    ELSE IF ~HasCreatedAt(RedisGet(session_token)) THEN Except("KeyError")
    ELSE IF Expired(RedisGet(session_token)) THEN None
    ELSE IF ~HasEmail(RedisGet(session_token)) THEN Except("KeyError")
    ELSE RedisGet(session_token).email

\* verify_session, the branch "else".
VerifyOnMap(session_token) ==
    IF session_token \notin DOMAIN active_sessions THEN None
    ELSE IF Expired(active_sessions[session_token]) THEN None
    ELSE active_sessions[session_token].email

\* verify_session in a process whose redis_client is set (redis) or None.
VerifySessionOn(redis, session_token) ==
    IF session_token = MissingToken THEN None
    ELSE IF redis THEN VerifyOnRedis(session_token)
    ELSE VerifyOnMap(session_token)

\* The value verify_session returns.
verify_session(session_token) == VerifySessionOn(redis_client, session_token)

\* Faulty variant: verify_session without the lazy eviction.
VerifyMapNoEvict(session_token) == active_sessions

\* "del active_sessions[session_token]" of verify_session: an entry found
\* expired is deleted.
EvictOnMap(session_token) ==
    IF /\ session_token \in DOMAIN active_sessions
       /\ Expired(active_sessions[session_token])
    THEN Remove(active_sessions, session_token)
    ELSE active_sessions

\* "redis_client.delete(session_token)" of verify_session: a visible key
\* found expired is deleted.
EvictOnRedis(session_token) ==
    IF /\ session_token # MissingToken
       /\ RedisHas(session_token)
       /\ HasCreatedAt(RedisGet(session_token))
       /\ Expired(RedisGet(session_token))
    THEN Remove(redis_store, session_token)
    ELSE redis_store

\* Faulty variant: a verify that restarts the lifetime of a valid session.
VerifyMapRefresh(session_token) ==
    IF /\ ~redis_client
       /\ session_token \in DOMAIN active_sessions
       /\ ~Expired(active_sessions[session_token])
    THEN Put(active_sessions, session_token,
             [email |-> active_sessions[session_token].email, created_at |-> now])
    ELSE IF ~redis_client THEN EvictOnMap(session_token) ELSE active_sessions

\* The in-process map after verify_session.
VerifyMap(session_token) ==
    IF ~redis_client THEN EvictOnMap(session_token) ELSE active_sessions

\* The Redis keys after verify_session.
VerifyRedis(session_token) ==
    IF redis_client THEN EvictOnRedis(session_token) ELSE redis_store

\* create_session: a new token, stored with the subject and the creation time.
StoreSession(map, token, session_data) == Put(map, token, session_data)

\* What the session handlers leave alone.
SessionFrame ==
    UNCHANGED <<fit_vars, chat_vars, report_vars, gate_vars, sdk_vars, side_vars>>

\* login: create_session runs only when verify_user accepted the credentials.
Login(email, credentials_ok) ==
    /\ issued < MaxTokens
    /\ IF credentials_ok
       THEN LET session_token == issued + 1
                session_data  == [email |-> email, created_at |-> now]
            IN  /\ issued' = session_token
                /\ created' = Put(created, session_token, session_data)
                /\ IF redis_client
                   THEN /\ redis_store' =
                              Put(redis_store, session_token,
                                  [data |-> session_data,
                                   expire_at |-> now + SESSION_TTL])
                        /\ UNCHANGED active_sessions
                   ELSE /\ active_sessions' =
                              StoreSession(active_sessions, session_token, session_data)
                        /\ UNCHANGED redis_store
                /\ last' = [op |-> "create", token |-> session_token,
                            value |-> email]
       ELSE /\ last' = [op |-> "login_refused", token |-> MissingToken,
                        value |-> None]
            /\ UNCHANGED <<issued, created, active_sessions, redis_store>>
    /\ UNCHANGED <<redis_client, now, ticks, logged_out>>
    /\ SessionFrame

\* A request that runs verify_session (get_current_user, or the root page).
Verify(session_token) ==
    /\ last' = [op |-> "verify", token |-> session_token,
                value |-> verify_session(session_token)]
    /\ active_sessions' = VerifyMap(session_token)
    /\ redis_store' = VerifyRedis(session_token)
    /\ UNCHANGED <<redis_client, now, ticks, issued, created, logged_out>>
    /\ SessionFrame

\* Faulty variant: logout that leaves the in-process entry in place.
LogoutMapKeep(session_token) == active_sessions

\* Faulty variant: the del statement run for every cookie value.
DeletesEntryUnguarded(session_token) ==
    ~redis_client /\ session_token # MissingToken

\* "elif not redis_client and session_token in active_sessions": the del
\* statement runs.
DeletesEntry(session_token) ==
    ~redis_client /\ session_token \in DOMAIN active_sessions

\* del active_sessions[session_token] raises KeyError for a key that is not
\* in the map; redis_client.delete of a key that is not there deletes nothing.
LogoutRaises(session_token) ==
    IF DeletesEntry(session_token) /\ session_token \notin DOMAIN active_sessions
    THEN "KeyError"
    ELSE None

\* The store after logout.
LogoutMap(session_token) ==
    IF DeletesEntry(session_token)
    THEN Remove(active_sessions, session_token)
    ELSE active_sessions

\* Faulty variant: logout that empties the Redis database.
LogoutRedisFlush(session_token) ==
    IF redis_client /\ session_token # MissingToken
    THEN <<>>
    ELSE redis_store

\* "if redis_client and session_token: redis_client.delete(session_token)"
LogoutRedis(session_token) ==
    IF redis_client /\ session_token # MissingToken
    THEN Remove(redis_store, session_token)
    ELSE redis_store

Logout(session_token) ==
    /\ active_sessions' = LogoutMap(session_token)
    /\ redis_store' = LogoutRedis(session_token)
    /\ logged_out' = IF session_token \in 1..issued
                     THEN logged_out \cup {session_token}
                     ELSE logged_out
    /\ last' = [op |-> "logout", token |-> session_token,
                value |-> LogoutRaises(session_token)]
    /\ UNCHANGED <<redis_client, now, ticks, issued, created>>
    /\ SessionFrame

\* Time passes between requests.
Tick(d) ==
    /\ ticks < MaxTicks
    /\ now' = now + d
    /\ ticks' = ticks + 1
    /\ UNCHANGED <<redis_client, active_sessions, redis_store, issued, created,
                   logged_out, last>>
    /\ SessionFrame

NoOp == [op |-> "none", token |-> MissingToken, value |-> None]

SessionInit ==
    /\ redis_client \in BOOLEAN
    /\ active_sessions = <<>>
    /\ redis_store = <<>>
    /\ now = 0
    /\ ticks = 0
    /\ issued = 0
    /\ created = <<>>
    /\ logged_out = {}
    /\ last = NoOp

SessionIdle ==
    /\ redis_client = FALSE
    /\ active_sessions = <<>>
    /\ redis_store = <<>>
    /\ now = 0
    /\ ticks = 0
    /\ issued = 0
    /\ created = <<>>
    /\ logged_out = {}
    /\ last = NoOp

SessionNext ==
    \/ \E email \in Emails, credentials_ok \in BOOLEAN : Login(email, credentials_ok)
    \/ \E session_token \in CookieValues : Verify(session_token)
    \/ \E session_token \in CookieValues : Logout(session_token)
    \/ \E d \in TickSteps : Tick(d)

(***************************************************************************)
(* The two session backends side by side (src/main.py 129-176, 256-265).   *)
(*                                                                         *)
(* Two processes, one started with Redis reachable and one without, take   *)
(* the same requests at the same times: redis_store is the store of the    *)
(* first, active_sessions the store of the second.  Both generate the same *)
(* token for the same login, so that the same cookie can be shown to both. *)
(***************************************************************************)
BothCreate(email) ==
    /\ issued < MaxTokens
    /\ LET session_token == issued + 1
           session_data  == [email |-> email, created_at |-> now]
       IN  /\ issued' = session_token
           /\ created' = Put(created, session_token, session_data)
           /\ redis_store' = Put(redis_store, session_token,
                                 [data |-> session_data,
                                  expire_at |-> now + SESSION_TTL])
           /\ active_sessions' =
                  StoreSession(active_sessions, session_token, session_data)
           /\ last' = [op |-> "create", token |-> session_token, value |-> email]
    /\ UNCHANGED <<redis_client, now, ticks, logged_out>>
    /\ SessionFrame

BothVerify(session_token) ==
    /\ last' = [op |-> "verify", token |-> session_token,
                value |-> VerifySessionOn(FALSE, session_token)]
    /\ active_sessions' = EvictOnMap(session_token)
    /\ redis_store' = EvictOnRedis(session_token)
    /\ UNCHANGED <<redis_client, now, ticks, issued, created, logged_out>>
    /\ SessionFrame

BothDelete(session_token) ==
    /\ active_sessions' = IF session_token \in DOMAIN active_sessions
                          THEN Remove(active_sessions, session_token)
                          ELSE active_sessions
    /\ redis_store' = IF session_token # MissingToken
                      THEN Remove(redis_store, session_token)
                      ELSE redis_store
    /\ logged_out' = IF session_token \in 1..issued
                     THEN logged_out \cup {session_token}
                     ELSE logged_out
    /\ last' = [op |-> "logout", token |-> session_token, value |-> None]
    /\ UNCHANGED <<redis_client, now, ticks, issued, created>>
    /\ SessionFrame

BackendsNext ==
    \/ \E email \in Emails : BothCreate(email)
    \/ \E session_token \in CookieValues : BothVerify(session_token)
    \/ \E session_token \in CookieValues : BothDelete(session_token)
    \/ \E d \in TickSteps : Tick(d)

(***************************************************************************)
(* Stored payloads (src/main.py 131, 157-168).                             *)
(*                                                                         *)
(* create_session stores json.dumps of {email, created_at} only, and the   *)
(* in-process map holds the dicts create_session put there.  A Redis key   *)
(* can also be written by whatever else reaches the server: the model      *)
(* lets such a writer replace the value of a session's key, with a new     *)
(* expiry of its own.                                                      *)
(***************************************************************************)
ForeignPayloads ==
    { [email |-> None, created_at |-> NotText],
      [email |-> None, created_at |-> NotJson],
      [email |-> "a@b.com", created_at |-> NoKey],
      [email |-> None, created_at |-> 0],
      [email |-> None, created_at |-> now] }

\* Every value in Redis is the one create_session stored.
Untouched ==
    \A t \in DOMAIN redis_store : redis_store[t].data = created[t]

ForeignWrite(session_token, payload) ==
    /\ redis_client
    /\ Untouched
    /\ RedisHas(session_token)
    /\ redis_store' = Put(redis_store, session_token,
                          [data |-> payload, expire_at |-> now + SESSION_TTL])
    /\ UNCHANGED <<redis_client, active_sessions, now, ticks, issued, created,
                   logged_out, last>>
    /\ SessionFrame

PayloadNext ==
    \/ \E email \in Emails : Login(email, TRUE)
    \/ \E session_token \in CookieValues : Verify(session_token)
    \/ \E d \in TickSteps : Tick(d)
    \/ \E session_token \in 1..issued, payload \in ForeignPayloads :
           ForeignWrite(session_token, payload)

(***************************************************************************)
(* Model invocation (src/main.py 348-384).                                 *)
(*                                                                         *)
(* What bedrock_client.invoke_model does is the environment's choice: it   *)
(* raises a ClientError with an error code, raises another exception, or   *)
(* returns a body whose "content" is a list of blocks.                     *)
(***************************************************************************)
TextBlock(text) == [type |-> "text", text |-> text]

ToolBlock == [type |-> "tool_use", text |-> ""]

Returned(content) == [exception |-> "none", code |-> "", content |-> content]

Raised(exception, code) == [exception |-> exception, code |-> code, content |-> <<>>]

AnalysisNeedsImprovement == "STATUS: NEEDS_IMPROVEMENT ANALYSIS: ..."
AnalysisGood == "STATUS: GOOD ANALYSIS: ..."

ProviderResponses ==
    { Returned(<<TextBlock(AnalysisNeedsImprovement)>>),
      Returned(<<TextBlock(AnalysisGood)>>),
      Returned(<<TextBlock("")>>),
      Returned(<<>>),
      Returned(<<ToolBlock, TextBlock(AnalysisGood)>>),
      Raised("ClientError", "ThrottlingException"),
      Raised("ClientError", "ValidationException"),
      Raised("ReadTimeoutError", "") }

HttpError(status, detail) == [ok |-> FALSE, text |-> "", status |-> status, detail |-> detail]

Reply(text) == [ok |-> TRUE, text |-> text, status |-> 200, detail |-> ""]

NoError == [status |-> 0, detail |-> ""]

Raise(outcome) == [status |-> outcome.status, detail |-> outcome.detail]

\* Faulty variant: every ClientError reported as a rate limit.
InvokeClientErrorsRateLimited(response) ==
    IF response.exception = "ClientError"
    THEN HttpError(429, "Rate limit. Wait 10s.")
    ELSE IF response.exception # "none"
    THEN HttpError(500, "Call failed: " \o response.exception)
    ELSE IF response.content # <<>> /\ response.content[1].type = "text"
    THEN Reply(response.content[1].text)
    ELSE HttpError(500, "Call failed: No text in response")

\* _invoke_bedrock_sync: the reply text, or the HTTPException it raises.
invoke_bedrock_sync(response) ==
    IF response.exception = "ClientError" THEN
        IF response.code = "ThrottlingException"
        THEN HttpError(429, "Rate limit. Wait 10s.")
        ELSE HttpError(500, "Bedrock error: " \o response.code)
    ELSE IF response.exception # "none"
    THEN HttpError(500, "Call failed: " \o response.exception)
    ELSE IF response.content # <<>> /\ response.content[1].type = "text"
    THEN Reply(response.content[1].text)
    ELSE HttpError(500, "Call failed: No text in response")

\* _invoke_bedrock_claude with bedrock_client = None: raised before anything
\* is handed to the executor.
NotReady == HttpError(500, "Bedrock not ready")

(***************************************************************************)
(* chat (src/main.py 1075-1100, src/game.py 398-423).                      *)
(*                                                                         *)
(* The content of a HistoryMessage is a text with or without surrounding   *)
(* whitespace; the texts themselves neither start nor end with a blank.    *)
(***************************************************************************)
Raw(ws, text) == [ws |-> ws, text |-> text]

\* m.content.strip()
Strip(content) == content.text

\* "if m.content and m.content.strip()"
Keeps(content) ==
    /\ (content.ws \/ StrLen(content.text) > 0)
    /\ StrLen(Strip(content)) > 0

\* messages = [{"role": m.role, "content": m.content.strip()} for m in
\*             request.history if m.content and m.content.strip()]
RECURSIVE CleanMessages(_)
CleanMessages(history) ==
    IF history = <<>> THEN <<>>
    ELSE (IF Keeps(Head(history).content)
          THEN <<[role |-> Head(history).role,
                  content |-> Strip(Head(history).content)]>>
          ELSE <<>>) \o CleanMessages(Tail(history))

\* The three checks of chat, in the order of the code: the detail of the
\* HTTPException(400, ...) raised, or "ok".
RECURSIVE SameRoleFrom(_, _)
SameRoleFrom(messages, i) ==
    IF i > Len(messages) THEN FALSE
    ELSE IF messages[i].role = messages[i - 1].role THEN TRUE
    ELSE SameRoleFrom(messages, i + 1)

\* Faulty variant: the last-speaker check left out.
ValidateNoLastSpeakerCheck(messages) ==
    IF messages = <<>> THEN "Empty history"
    ELSE IF SameRoleFrom(messages, 2) THEN "Wait for patient reply"
    ELSE "ok"

\* Faulty variant: the last-speaker check made before the alternation check.
ValidateLastSpeakerFirst(messages) ==
    IF messages = <<>> THEN "Empty history"
    ELSE IF messages[Len(messages)].role # "user" THEN "Therapist must speak last"
    ELSE IF SameRoleFrom(messages, 2) THEN "Wait for patient reply"
    ELSE "ok"

ValidateTurns(messages) ==
    IF messages = <<>> THEN "Empty history"
    ELSE IF SameRoleFrom(messages, 2) THEN "Wait for patient reply"
    ELSE IF messages[Len(messages)].role # "user" THEN "Therapist must speak last"
    ELSE "ok"

ChatRoles == {"user", "assistant", "system"}

ChatContents ==
    { Raw(FALSE, Words(0, 5)), Raw(TRUE, Words(0, 5)),
      Raw(TRUE, Words(40, 5)), Raw(FALSE, Words(1000, 5)) }

ChatHistories ==
    UNION {[1..m -> [role : ChatRoles, content : ChatContents]] : m \in 0..MaxMsgs}

ChatFrame == UNCHANGED <<fit_vars, session_vars, report_vars, gate_vars, side_vars>>

\* Faulty variant: the call handed to the executor without looking at
\* bedrock_client.
ChatHandleNoClientCheck ==
    /\ chat_pc = "received"
    /\ LET messages == CleanMessages(chat_request.history)
           verdict  == ValidateTurns(messages)
           fitted   == fit_to_token_limit(messages, chat_request.persona_prompt)
       IN  IF verdict # "ok" THEN
               /\ chat_pc' = "rejected"
               /\ chat_error' = [status |-> 400, detail |-> verdict]
               /\ chat_messages' = messages
               /\ chat_steps' = <<>>
           ELSE IF fitted.status = "error" THEN
               /\ chat_pc' = "rejected"
               /\ chat_error' = [status |-> 500, detail |-> fitted.detail]
               /\ chat_messages' = messages
               /\ chat_steps' = <<"validate">>
           ELSE
               /\ chat_pc' = "awaiting"
               /\ chat_error' = NoError
               /\ chat_messages' = fitted.messages
               /\ chat_steps' = <<"validate", "trim", "call">>
    /\ UNCHANGED <<bedrock_client, chat_request, chat_reply>>
    /\ sends' = 0
    /\ ChatFrame

\* Faulty variant: the history trimmed before it is validated.
ChatHandleTrimFirst ==
    /\ chat_pc = "received"
    /\ LET messages == CleanMessages(chat_request.history)
           fitted   == fit_to_token_limit(messages, chat_request.persona_prompt)
           verdict  == ValidateTurns(fitted.messages)
       IN  IF fitted.status = "error" THEN
               /\ chat_pc' = "rejected"
               /\ chat_error' = [status |-> 500, detail |-> fitted.detail]
               /\ chat_messages' = messages
               /\ chat_steps' = <<>>
           ELSE IF verdict # "ok" THEN
               /\ chat_pc' = "rejected"
               /\ chat_error' = [status |-> 400, detail |-> verdict]
               /\ chat_messages' = fitted.messages
               /\ chat_steps' = <<"trim">>
           ELSE IF ~bedrock_client THEN
               /\ chat_pc' = "rejected"
               /\ chat_error' = Raise(NotReady)
               /\ chat_messages' = fitted.messages
               /\ chat_steps' = <<"trim", "validate">>
           ELSE
               /\ chat_pc' = "awaiting"
               /\ chat_error' = NoError
               /\ chat_messages' = fitted.messages
               /\ chat_steps' = <<"trim", "validate", "call">>
    /\ UNCHANGED <<bedrock_client, chat_request, chat_reply>>
    /\ sends' = 0
    /\ ChatFrame

\* The handler up to its await: clean, validate, trim, dispatch the call.
ChatHandle ==
    /\ chat_pc = "received"
    /\ LET messages == CleanMessages(chat_request.history)
           verdict  == ValidateTurns(messages)
           fitted   == fit_to_token_limit(messages, chat_request.persona_prompt)
       IN  IF verdict # "ok" THEN
               /\ chat_pc' = "rejected"
               /\ chat_error' = [status |-> 400, detail |-> verdict]
               /\ chat_messages' = messages
               /\ chat_steps' = <<>>
           ELSE IF fitted.status = "error" THEN
               /\ chat_pc' = "rejected"
               /\ chat_error' = [status |-> 500, detail |-> fitted.detail]
               /\ chat_messages' = messages
               /\ chat_steps' = <<"validate">>
           ELSE IF ~bedrock_client THEN
               /\ chat_pc' = "rejected"
               /\ chat_error' = Raise(NotReady)
               /\ chat_messages' = fitted.messages
               /\ chat_steps' = <<"validate", "trim">>
           ELSE
               /\ chat_pc' = "awaiting"
               /\ chat_error' = NoError
               /\ chat_messages' = fitted.messages
               /\ chat_steps' = <<"validate", "trim", "call">>
    /\ UNCHANGED <<bedrock_client, chat_request, chat_reply>>
    /\ sends' = 0
    /\ ChatFrame

\* The executor finishes _invoke_bedrock_sync and the handler resumes.
ChatReturn(response) ==
    /\ chat_pc = "awaiting"
    /\ LET outcome == invoke_bedrock_sync(response)
       IN  IF outcome.ok
           THEN /\ chat_pc' = "replied"
                /\ chat_reply' = outcome.text
                /\ chat_error' = NoError
           ELSE /\ chat_pc' = "failed"
                /\ chat_reply' = ""
                /\ chat_error' = Raise(outcome)
    /\ UNCHANGED <<bedrock_client, chat_request, chat_messages, chat_steps>>
    /\ sends' = 0
    /\ ChatFrame

ChatInit ==
    /\ bedrock_client \in BOOLEAN
    /\ chat_request \in [history : ChatHistories, persona_prompt : Prompts]
    /\ chat_pc = "received"
    /\ chat_messages = <<>>
    /\ chat_steps = <<>>
    /\ chat_error = NoError
    /\ chat_reply = ""

ChatIdle ==
    /\ bedrock_client = TRUE
    /\ chat_request = [history |-> <<>>, persona_prompt |-> Words(0, 5)]
    /\ chat_pc = "idle"
    /\ chat_messages = <<>>
    /\ chat_steps = <<>>
    /\ chat_error = NoError
    /\ chat_reply = ""

ChatNext ==
    \/ ChatHandle
    \/ \E response \in ProviderResponses : ChatReturn(response)

(***************************************************************************)
(* Chat requests side by side (src/main.py 1075-1100).                     *)
(*                                                                         *)
(* Each request runs its own call of the handler: system_prompt and        *)
(* messages are locals of that call, built from the request's body.  The   *)
(* handler runs without an await up to the model call, where the event     *)
(* loop may run the handlers of other requests.                            *)
(***************************************************************************)
MaxChats == 2

ChatUsers == {"a@b.com", "c@d.com"}

\* One turn, two turns that can follow it, and three turns of which the
\* oldest is too long to be kept whole beside a long persona prompt.
SideHistories ==
    { <<[role |-> "user", content |-> Raw(TRUE, Words(40, 5))]>>,
      <<[role |-> "assistant", content |-> Raw(TRUE, Words(40, 5))],
        [role |-> "user", content |-> Raw(TRUE, Words(40, 5))]>>,
      <<[role |-> "user", content |-> Raw(FALSE, Words(1000, 5))],
        [role |-> "assistant", content |-> Raw(TRUE, Words(40, 5))],
        [role |-> "user", content |-> Raw(TRUE, Words(40, 5))]>> }

SidePrompts == {Words(0, 5), Words(6800, 5)}

SideRequests == [history : SideHistories, persona_prompt : SidePrompts]

SideResponses ==
    {Returned(<<TextBlock(AnalysisGood)>>), Raised("ClientError", "ThrottlingException")}

ChatsFrame ==
    UNCHANGED <<fit_vars, session_vars, chat_vars, report_vars, gate_vars,
                sdk_vars, backstory, pool_vars, loop_vars>>

\* A request arrives; current_user is the subject of its session.
ChatArrive(current_user, request) ==
    /\ Len(chats) < MaxChats
    /\ chats' = Append(chats, [current_user |-> current_user,
                               request |-> request,
                               pc |-> "received",
                               system_prompt |-> Words(0, 5),
                               messages |-> <<>>])
    /\ ChatsFrame

\* Faulty variant: the history kept on the server per subject, each request
\* adding its turns to those of the subject's earlier requests.
HandlerHistoryAccumulated(r) ==
    LET RECURSIVE Earlier(_)
        Earlier(q) ==
            IF q = 0 THEN <<>>
            ELSE Earlier(q - 1) \o
                 (IF chats[q].current_user = chats[r].current_user
                     /\ chats[q].pc # "received"
                  THEN chats[q].request.history ELSE <<>>)
    IN  Earlier(r - 1) \o chats[r].request.history

\* The history the handler works on: request.history.
HandlerHistory(r) == chats[r].request.history

\* The handler of request r up to its await.
ChatRun(r) ==
    /\ r \in DOMAIN chats
    /\ chats[r].pc = "received"
    /\ LET system_prompt == chats[r].request.persona_prompt
           messages == CleanMessages(HandlerHistory(r))
           verdict  == ValidateTurns(messages)
           fitted   == fit_to_token_limit(messages, system_prompt)
       IN  chats' = [chats EXCEPT ![r] =
               IF verdict # "ok" \/ fitted.status = "error"
               THEN [@ EXCEPT !.pc = "rejected"]
               ELSE [@ EXCEPT !.pc = "awaiting",
                              !.system_prompt = system_prompt,
                              !.messages = fitted.messages]]
    /\ ChatsFrame

\* The model call of request r returns or raises.
ChatFinish(r, response) ==
    /\ r \in DOMAIN chats
    /\ chats[r].pc = "awaiting"
    /\ chats' = [chats EXCEPT ![r].pc =
                    IF invoke_bedrock_sync(response).ok THEN "replied" ELSE "failed"]
    /\ ChatsFrame

ChatsNext ==
    \/ \E current_user \in ChatUsers, request \in SideRequests :
           ChatArrive(current_user, request)
    \/ \E r \in 1..MaxChats : ChatRun(r)
    \/ \E r \in 1..MaxChats, response \in SideResponses : ChatFinish(r, response)

(***************************************************************************)
(* generate_report (src/main.py 1102-1211).                                *)
(*                                                                         *)
(* The handler is suspended at its awaits: the main report call, each      *)
(* attempt of an utterance's analysis, the backoff sleep and the pacing    *)
(* sleep.  A step of the model runs the handler from one await to the      *)
(* next.  The index i counts from 1, so "i < len(chat_history) - 1" reads  *)
(* rep_i < Len(rep_history).                                               *)
(***************************************************************************)
MaxHistory == 3

max_retries == 3

\* The content of the j-th message of the chat history.
Utterance(j) == "message " \o ToString(j)

ReportHistories ==
    { [j \in 1..Len(roles) |-> [role |-> roles[j], content |-> Utterance(j)]] :
          roles \in UNION {[1..m -> Roles] : m \in 0..MaxHistory} }

\* "for i in range(len(chat_history))" with "if msg['role'] == 'user'": the
\* first therapist message at or after position from, 0 when there is none.
RECURSIVE NextTherapist(_, _)
NextTherapist(history, from) ==
    IF from > Len(history) THEN 0
    ELSE IF history[from].role = "user" THEN from
    ELSE NextTherapist(history, from + 1)

\* patient_response: the next message when it is the patient's.
PatientResponse(history, i) ==
    IF i + 1 <= Len(history) /\ history[i + 1].role = "assistant"
    THEN history[i + 1].content
    ELSE ""

\* str(e) of the exception the item's handler catches.
ErrorMsg(outcome) == ToString(outcome.status) \o ": " \o outcome.detail

\* "rate limit" in error_msg.lower() or "429" in error_msg
MentionsRateLimit(error_msg) == error_msg \in {"429: Rate limit. Wait 10s."}

\* "timeout" in error_msg.lower()
MentionsTimeout(error_msg) == error_msg \in {"500: Call failed: ReadTimeoutError"}

FallbackText(error_msg) ==
    "Unable to generate detailed analysis at this time. " \o
    (IF MentionsRateLimit(error_msg)
     THEN "The AI service is currently busy. This response will be analyzed in the summary above."
     ELSE IF MentionsTimeout(error_msg)
     THEN "The analysis request timed out. Your overall performance is covered in the main report."
     ELSE "Please refer to the overall evaluation above for guidance on this exchange.")

\* "NEEDS_IMPROVEMENT" in improvement.upper()
NeedsImprovement(improvement) == improvement \in {AnalysisNeedsImprovement}

AnalysisRecord(history, i, improvement) ==
    [therapist_message |-> history[i].content,
     patient_response |-> PatientResponse(history, i),
     improvement |-> improvement,
     needs_improvement |-> NeedsImprovement(improvement)]

\* Faulty variant: a fallback record flagged as needing improvement.
FallbackRecordFlagged(history, i, error_msg) ==
    [therapist_message |-> history[i].content,
     patient_response |-> PatientResponse(history, i),
     improvement |-> FallbackText(error_msg),
     needs_improvement |-> TRUE]

FallbackRecord(history, i, error_msg) ==
    [therapist_message |-> history[i].content,
     patient_response |-> PatientResponse(history, i),
     improvement |-> FallbackText(error_msg),
     needs_improvement |-> FALSE]

\* Faulty variant: a rate-limited call retried however often it was tried.
RetriesWithoutEnd(outcome, attempt) == ~outcome.ok /\ outcome.status = 429

\* Faulty variants: one attempt too many; a retry after any error.
RetriesOnceMore(outcome, attempt) ==
    ~outcome.ok /\ outcome.status = 429 /\ attempt < max_retries

RetriesAnyError(outcome, attempt) ==
    ~outcome.ok /\ attempt < max_retries - 1

\* "if http_err.status_code == 429 and attempt < max_retries - 1": wait and
\* retry.  Every exception _invoke_bedrock_claude raises is an HTTPException,
\* so the "except Exception" clause of the retry loop is never entered.
Retries(outcome, attempt) ==
    ~outcome.ok /\ outcome.status = 429 /\ attempt < max_retries - 1

\* Faulty variant: a constant delay.
SameDelay(delay) == delay

\* "retry_delay *= 2"
NextDelay(delay) == delay * 2

\* Faulty variant: a handler that lets call failures through.
CatchesOnlyRateLimit(outcome) == outcome.status = 429

\* "except Exception as e" around an item: it catches what the retry loop
\* re-raises, an HTTPException being an Exception.
Catches(outcome) == TRUE

\* The outcome of awaiting _invoke_bedrock_claude.
Invoke(response) == IF bedrock_client THEN invoke_bedrock_sync(response) ELSE NotReady

NoItem == [item |-> 0, calls |-> 0, waits |-> <<>>, outcomes |-> <<>>]

NoCalls == [made |-> 0, in_flight |-> 0]

\* "await _invoke_bedrock_claude(...)": a call is made and the handler is
\* suspended until it ends.
Dispatch(calls) == [made |-> calls.made + 1, in_flight |-> calls.in_flight + 1]

\* The awaited call returns or raises.
CallEnded(calls) == [calls EXCEPT !.in_flight = @ - 1]

ReportFrame == UNCHANGED <<fit_vars, session_vars, chat_vars, gate_vars, side_vars>>

\* The loop moves on to therapist message j and dispatches its first
\* attempt, or has run out of messages and the handler returns.
StartItem(j, calls) ==
    IF j = 0
    THEN /\ rep_pc' = "done"
         /\ rep_calls' = calls
         /\ UNCHANGED <<rep_i, rep_attempt, retry_delay, cur>>
    ELSE /\ rep_pc' = "attempt"
         /\ rep_calls' = Dispatch(calls)
         /\ rep_i' = j
         /\ rep_attempt' = 0
         /\ retry_delay' = 1
         /\ cur' = [item |-> j, calls |-> 1, waits |-> <<>>, outcomes |-> <<>>]

\* The main report call ends.
ReportMainReturn(response) ==
    /\ rep_pc = "main"
    /\ LET outcome == Invoke(response)
       IN  IF outcome.ok
           THEN /\ rep_report' = outcome.text
                /\ rep_error' = NoError
                /\ StartItem(NextTherapist(rep_history, 1), CallEnded(rep_calls))
           ELSE /\ rep_pc' = "failed"
                /\ rep_error' = Raise(outcome)
                /\ rep_calls' = CallEnded(rep_calls)
                /\ UNCHANGED <<rep_report, rep_i, rep_attempt, retry_delay, cur>>
    /\ UNCHANGED <<rep_history, improvements>>
    /\ sends' = 0
    /\ ReportFrame

\* Faulty variant: the loop goes on to the next message without the pacing
\* sleep.
RecordedNoPacing(record) ==
    /\ improvements' = Append(improvements, record)
    /\ rep_pc' = IF NextTherapist(rep_history, rep_i + 1) # 0 THEN "attempt" ELSE "done"
    /\ rep_error' = NoError

\* The record is appended; then the pacing sleep unless the message is the
\* last of the history.
Recorded(record) ==
    /\ improvements' = Append(improvements, record)
    /\ rep_pc' = IF rep_i < Len(rep_history) THEN "pacing" ELSE "done"
    /\ rep_error' = NoError

\* An attempt of the analysis of therapist message rep_i ends.
ReportAttemptReturn(response) ==
    /\ rep_pc = "attempt"
    /\ LET outcome == Invoke(response)
       IN  /\ cur' = [cur EXCEPT !.outcomes = Append(@, outcome)]
           /\ rep_calls' = CallEnded(rep_calls)
           /\ IF outcome.ok /\ outcome.text # ""
              THEN Recorded(AnalysisRecord(rep_history, rep_i, outcome.text))
              ELSE IF outcome.ok
              THEN Recorded(FallbackRecord(rep_history, rep_i, "Failed after all retries"))
              ELSE IF Retries(outcome, rep_attempt)
              THEN /\ rep_pc' = "backoff"
                   /\ UNCHANGED <<improvements, rep_error>>
              ELSE IF Catches(outcome)
              THEN Recorded(FallbackRecord(rep_history, rep_i, ErrorMsg(outcome)))
              ELSE /\ rep_pc' = "failed"
                   /\ rep_error' = Raise(outcome)
                   /\ UNCHANGED improvements
    /\ UNCHANGED <<rep_history, rep_report, rep_i, rep_attempt, retry_delay>>
    /\ sends' = 0
    /\ ReportFrame

\* "await asyncio.sleep(retry_delay)" ends: the delay doubles and the next
\* attempt is dispatched.
ReportBackoffDone ==
    /\ rep_pc = "backoff"
    /\ cur' = [cur EXCEPT !.waits = Append(@, retry_delay), !.calls = @ + 1]
    /\ rep_calls' = Dispatch(rep_calls)
    /\ retry_delay' = NextDelay(retry_delay)
    /\ rep_attempt' = rep_attempt + 1
    /\ rep_pc' = "attempt"
    /\ UNCHANGED <<rep_history, rep_report, rep_i, improvements, rep_error>>
    /\ sends' = 0
    /\ ReportFrame

\* "await asyncio.sleep(0.5)" ends and the loop goes on.
ReportPacingDone ==
    /\ rep_pc = "pacing"
    /\ StartItem(NextTherapist(rep_history, rep_i + 1), rep_calls)
    /\ UNCHANGED <<rep_history, rep_report, improvements, rep_error>>
    /\ sends' = 0
    /\ ReportFrame

ReportInit ==
    /\ rep_history \in ReportHistories
    /\ rep_pc = "main"
    /\ rep_report = None
    /\ rep_i = 0
    /\ rep_attempt = 0
    /\ retry_delay = 0
    /\ improvements = <<>>
    /\ rep_error = NoError
    /\ rep_calls = Dispatch(NoCalls)
    /\ cur = NoItem

ReportIdle ==
    /\ rep_history = <<>>
    /\ rep_pc = "idle"
    /\ rep_report = None
    /\ rep_i = 0
    /\ rep_attempt = 0
    /\ retry_delay = 0
    /\ improvements = <<>>
    /\ rep_error = NoError
    /\ rep_calls = NoCalls
    /\ cur = NoItem

\* The chat variables while a report request is modelled: only the Bedrock
\* client, which is set at startup, is read.
ChatQuiet ==
    /\ bedrock_client \in BOOLEAN
    /\ chat_request = [history |-> <<>>, persona_prompt |-> Words(0, 5)]
    /\ chat_pc = "idle"
    /\ chat_messages = <<>>
    /\ chat_steps = <<>>
    /\ chat_error = NoError
    /\ chat_reply = ""

ReportNext ==
    \/ \E response \in ProviderResponses : ReportMainReturn(response)
    \/ \E response \in ProviderResponses : ReportAttemptReturn(response)
    \/ ReportBackoffDone
    \/ ReportPacingDone

(***************************************************************************)
(* Protected routes (src/main.py 178-184, 1029-1030, 1075-1076,            *)
(* 1102-1103).                                                             *)
(*                                                                         *)
(* chat, start_session and generate_report declare                         *)
(* current_user = Depends(get_current_user): the dependency runs before    *)
(* the handler's body, and the body runs only when it returned.  A request *)
(* that is let through stands at the entry of its handler: chat with its   *)
(* ChatRequest received, generate_report awaiting the main report call,    *)
(* start_session awaiting the backstory call.                              *)
(***************************************************************************)
Routes == {"chat", "start_session", "generate_report"}

\* Faulty variant: a dependency that never raises.
GetCurrentUserAnyone(session_token) ==
    [status |-> 200, detail |-> "", user |-> verify_session(session_token)]

\* get_current_user: the email, or HTTPException(401, "Not authenticated").
get_current_user(session_token) ==
    IF verify_session(session_token) = None
    THEN [status |-> 401, detail |-> "Not authenticated", user |-> None]
    ELSE [status |-> 200, detail |-> "", user |-> verify_session(session_token)]

NoRequest ==
    [route |-> "none", token |-> MissingToken, status |-> 0, detail |-> "",
     user |-> None]

\* The requests the protected routes receive.
ProtectedChatRequests ==
    { [history |-> <<[role |-> "user", content |-> Raw(FALSE, Words(40, 5))]>>,
       persona_prompt |-> Words(0, 5)] }

ProtectedReportHistories ==
    { <<[role |-> "user", content |-> Utterance(1)]>> }

\* The handler of the route starts on the request.
Enter(route) ==
    /\ IF route = "chat"
       THEN /\ chat_request' \in ProtectedChatRequests
            /\ chat_pc' = "received"
            /\ chat_messages' = <<>>
            /\ chat_steps' = <<>>
            /\ chat_error' = NoError
            /\ chat_reply' = ""
            /\ UNCHANGED bedrock_client
       ELSE UNCHANGED chat_vars
    /\ IF route = "generate_report"
       THEN /\ rep_history' \in ProtectedReportHistories
            /\ rep_pc' = "main"
            /\ rep_report' = None
            /\ rep_i' = 0
            /\ rep_attempt' = 0
            /\ retry_delay' = 0
            /\ improvements' = <<>>
            /\ rep_error' = NoError
            /\ rep_calls' = Dispatch(NoCalls)
            /\ cur' = NoItem
       ELSE UNCHANGED report_vars
    /\ start_pc' = IF route = "start_session" THEN "backstory" ELSE start_pc

\* A request to a protected route: get_current_user, which runs
\* verify_session on the cookie, then the handler or the 401.  The model
\* follows one such request, made in any state the session store can reach.
Protected(route, session_token) ==
    /\ auth = NoRequest
    /\ auth' = [route |-> route, token |-> session_token,
                status |-> get_current_user(session_token).status,
                detail |-> get_current_user(session_token).detail,
                user |-> get_current_user(session_token).user]
    /\ active_sessions' = VerifyMap(session_token)
    /\ redis_store' = VerifyRedis(session_token)
    /\ IF get_current_user(session_token).status = 401
       THEN UNCHANGED <<chat_vars, report_vars, start_pc>>
       ELSE Enter(route)
    /\ UNCHANGED <<redis_client, now, ticks, issued, created, logged_out, last>>
    /\ UNCHANGED <<fit_vars, sdk_vars, side_vars>>

GateIdle ==
    /\ auth = NoRequest
    /\ start_pc = "idle"

ProtectedNext ==
    \/ \E email \in Emails : Login(email, TRUE)
    \/ \E session_token \in 1..issued : Logout(session_token)
    \/ \E d \in TickSteps : Tick(d)
    \/ \E route \in Routes, session_token \in CookieValues :
           Protected(route, session_token)

(***************************************************************************)
(* The executor (src/main.py 39, 380-384).                                 *)
(*                                                                         *)
(* Every model call of every request goes through                          *)
(* loop.run_in_executor(executor, _invoke_bedrock_sync, ...), executor     *)
(* being one ThreadPoolExecutor(max_workers=10) for the process.  submit   *)
(* appends the work item to the executor's work queue; each worker thread  *)
(* takes the item at the head of the queue, runs it and comes back for the *)
(* next.  The calls are numbered in the order of their submission.         *)
(***************************************************************************)
max_workers == 10

MaxCalls == 11

Calls == 1..MaxCalls

PoolIdle ==
    /\ pool_submitted = 0
    /\ pool_queue = <<>>
    /\ pool_running = {}
    /\ pool_done = {}

\* Everything but the executor.
PoolFrame ==
    UNCHANGED <<fit_vars, session_vars, chat_vars, report_vars, gate_vars,
                sdk_vars, backstory, loop_vars, chats>>

\* Faulty variant: a thread for every call.
WorkerAlwaysFree == TRUE

\* One of the max_workers threads is not executing a call.
WorkerFree == Cardinality(pool_running) < max_workers

\* Faulty variant: the newest work item taken first.
TakeNewest == pool_queue[Len(pool_queue)]

\* The work item a worker's work_queue.get() returns.
TakeNext == Head(pool_queue)

\* A request handler awaits loop.run_in_executor(executor, ...).
Submit ==
    /\ pool_submitted < MaxCalls
    /\ pool_submitted' = pool_submitted + 1
    /\ pool_queue' = Append(pool_queue, pool_submitted + 1)
    /\ UNCHANGED <<pool_running, pool_done>>
    /\ PoolFrame

\* A worker thread takes a work item and starts _invoke_bedrock_sync.
Start ==
    /\ pool_queue # <<>>
    /\ WorkerFree
    /\ pool_running' = pool_running \cup {TakeNext}
    /\ pool_queue' = SelectSeq(pool_queue, LAMBDA c : c # TakeNext)
    /\ UNCHANGED <<pool_submitted, pool_done>>
    /\ PoolFrame

\* _invoke_bedrock_sync returns or raises in its worker thread.
Finish(c) ==
    /\ c \in pool_running
    /\ pool_running' = pool_running \ {c}
    /\ pool_done' = pool_done \cup {c}
    /\ UNCHANGED <<pool_submitted, pool_queue>>
    /\ PoolFrame

PoolNext ==
    \/ Submit
    \/ Start
    \/ \E c \in Calls : Finish(c)

\* A worker thread that finds a work item in the queue goes on to run it,
\* and while calls are executing one of them returns or raises (connect
\* timeout 5 s, read timeout 90 s).
PoolFairness ==
    /\ WF_vars(Start)
    /\ WF_vars(\E c \in Calls : Finish(c))

(***************************************************************************)
(* The event loop and the session store (src/main.py 139-184, 230-265,     *)
(* 1075-1100).                                                             *)
(*                                                                         *)
(* Every handler and get_current_user are "async def": they run on the one *)
(* thread of the event loop, and the loop runs another handler only when   *)
(* the running one awaits or ends.  create_session, verify_session and     *)
(* logout are plain functions without an await.  redis_client is the       *)
(* synchronous Redis client: get, setex and delete send the command and    *)
(* return when the reply has been read, the handler that called them       *)
(* staying on the loop.  The one await of a chat request is the model      *)
(* call.  A statement of the source is a step of the model.                *)
(***************************************************************************)
MaxRequests == 3

Requests == 1..MaxRequests

NoSession == [email |-> None, created_at |-> 0]

NoTask == [op |-> "none", token |-> MissingToken, pc |-> "none",
           session |-> NoSession, value |-> None]

LoopIdle ==
    /\ loop_owner = 0
    /\ tasks = <<>>

\* A session was created at time 0; the requests of the model arrive then
\* or when it has expired.
LoopInit ==
    /\ redis_client \in BOOLEAN
    /\ now \in {0, SESSION_TTL + 1}
    /\ ticks = 0
    /\ issued = 1
    /\ created = <<[email |-> "a@b.com", created_at |-> 0]>>
    /\ logged_out = {}
    /\ last = [op |-> "create", token |-> 1, value |-> "a@b.com"]
    /\ active_sessions = IF redis_client THEN <<>> ELSE created
    /\ redis_store = IF redis_client
                     THEN <<[data |-> created[1], expire_at |-> SESSION_TTL]>>
                     ELSE <<>>
    /\ sends = 0
    /\ backstory = ""
    /\ PoolIdle
    /\ loop_owner = 0
    /\ tasks = [r \in Requests |-> NoTask]
    /\ chats = <<>>

LoopFrame ==
    UNCHANGED <<fit_vars, chat_vars, report_vars, gate_vars, sdk_vars, backstory,
                pool_vars, chats, redis_client, now, ticks, created, last>>

\* Faulty variant: handlers run by threads, any of them at any time.
MayRunAnyTime(r) == TRUE

\* The loop runs a step of request r: its handler is the one running, or
\* none is.
MayRun(r) == loop_owner = r \/ loop_owner = 0

\* The handler of r goes on to pc; holds tells whether it stays on the loop.
Goes(r, pc, session, value, holds) ==
    /\ tasks' = [tasks EXCEPT ![r].pc = pc, ![r].session = session,
                              ![r].value = value]
    /\ loop_owner' = IF holds THEN r
                     ELSE IF loop_owner = r THEN 0 ELSE loop_owner

\* A request arrives: a login whose credentials verify, a chat request with
\* a cookie, or a logout with a cookie.
Arrive(r, op, session_token) ==
    /\ tasks[r].pc = "none"
    /\ IF r = 1 THEN TRUE ELSE tasks[r - 1].pc # "none"
    /\ tasks' = [tasks EXCEPT ![r] = [op |-> op, token |-> session_token,
                                      pc |-> "ready", session |-> NoSession,
                                      value |-> None]]
    /\ UNCHANGED <<loop_owner, active_sessions, redis_store, issued, logged_out>>
    /\ LoopFrame

\* create_session on the in-process map: "active_sessions[session_token] =
\* session_data".
LoginMapStep(r) ==
    /\ ~redis_client
    /\ MayRun(r)
    /\ tasks[r].op = "login" /\ tasks[r].pc = "ready"
    /\ issued' = issued + 1
    /\ active_sessions' = StoreSession(active_sessions, issued + 1,
                                       [email |-> "c@d.com", created_at |-> now])
    /\ tasks' = [tasks EXCEPT ![r].pc = "done", ![r].token = issued + 1,
                              ![r].value = "c@d.com"]
    /\ loop_owner' = IF loop_owner = r THEN 0 ELSE loop_owner
    /\ UNCHANGED <<redis_store, logged_out>>
    /\ LoopFrame

\* verify_session on the in-process map, run by get_current_user for a chat
\* request, statement by statement: the membership test, the read of the
\* entry, then the del of an expired entry or the return of the subject, on
\* which the handler goes up to its await of the model call.
VerifyMapStep(r) ==
    /\ ~redis_client
    /\ MayRun(r)
    /\ tasks[r].op = "chat"
    /\ LET session_token == tasks[r].token
           session == tasks[r].session
       IN  \/ /\ tasks[r].pc = "ready"
              /\ IF session_token # MissingToken
                    /\ session_token \in DOMAIN active_sessions
                 THEN Goes(r, "checked", NoSession, None, TRUE)
                 ELSE Goes(r, "done", NoSession, None, FALSE)
              /\ UNCHANGED active_sessions
           \/ /\ tasks[r].pc = "checked"
              /\ IF session_token \in DOMAIN active_sessions
                 THEN Goes(r, "read", active_sessions[session_token], None, TRUE)
                 ELSE Goes(r, "done", NoSession, "KeyError", FALSE)
              /\ UNCHANGED active_sessions
           \/ /\ tasks[r].pc = "read"
              /\ IF ~Expired(session)
                 THEN /\ Goes(r, "model_wait", session, session.email, FALSE)
                      /\ UNCHANGED active_sessions
                 ELSE IF session_token \in DOMAIN active_sessions
                 THEN /\ Goes(r, "done", session, None, FALSE)
                      /\ active_sessions' = Remove(active_sessions, session_token)
                 ELSE /\ Goes(r, "done", session, "KeyError", FALSE)
                      /\ UNCHANGED active_sessions
    /\ UNCHANGED <<redis_store, issued, logged_out>>
    /\ LoopFrame

\* logout on the in-process map: the membership test, then the del.
LogoutMapStep(r) ==
    /\ ~redis_client
    /\ MayRun(r)
    /\ tasks[r].op = "logout"
    /\ LET session_token == tasks[r].token
       IN  \/ /\ tasks[r].pc = "ready"
              /\ IF session_token \in DOMAIN active_sessions
                 THEN Goes(r, "checked", NoSession, None, TRUE)
                 ELSE Goes(r, "done", NoSession, None, FALSE)
              /\ UNCHANGED <<active_sessions, logged_out>>
           \/ /\ tasks[r].pc = "checked"
              /\ IF session_token \in DOMAIN active_sessions
                 THEN /\ Goes(r, "done", NoSession, None, FALSE)
                      /\ active_sessions' = Remove(active_sessions, session_token)
                      /\ logged_out' = logged_out \cup {session_token}
                 ELSE /\ Goes(r, "done", NoSession, "KeyError", FALSE)
                      /\ UNCHANGED <<active_sessions, logged_out>>
    /\ UNCHANGED <<redis_store, issued>>
    /\ LoopFrame

\* A handler calls redis_client.setex, .get or .delete: the command is sent
\* and the handler waits for the reply where it stands, on the loop.
RedisCall(r) ==
    /\ redis_client
    /\ MayRun(r)
    /\ tasks[r].pc = "ready"
    /\ IF tasks[r].op = "login"
       THEN Goes(r, "redis_setex", NoSession, None, TRUE)
       ELSE IF tasks[r].token = MissingToken
       THEN Goes(r, "done", NoSession, None, FALSE)
       ELSE IF tasks[r].op = "chat"
       THEN Goes(r, "redis_get", NoSession, None, TRUE)
       ELSE Goes(r, "redis_delete", NoSession, None, TRUE)
    /\ UNCHANGED <<active_sessions, redis_store, issued, logged_out>>
    /\ LoopFrame

\* Redis has run the command and the handler has read the reply.
RedisReply(r) ==
    /\ redis_client
    /\ MayRun(r)
    /\ LET session_token == tasks[r].token
       IN  \/ /\ tasks[r].pc = "redis_setex"
              /\ issued' = issued + 1
              /\ redis_store' =
                     Put(redis_store, issued + 1,
                         [data |-> [email |-> "c@d.com", created_at |-> now],
                          expire_at |-> now + SESSION_TTL])
              /\ tasks' = [tasks EXCEPT ![r].pc = "done", ![r].token = issued + 1,
                                        ![r].value = "c@d.com"]
              /\ loop_owner' = IF loop_owner = r THEN 0 ELSE loop_owner
              /\ UNCHANGED logged_out
           \/ /\ tasks[r].pc = "redis_get"
              /\ IF ~RedisHas(session_token)
                 THEN Goes(r, "done", NoSession, None, FALSE)
                 ELSE IF Expired(RedisGet(session_token))
                 THEN Goes(r, "redis_delete", RedisGet(session_token), None, TRUE)
                 ELSE Goes(r, "model_wait", RedisGet(session_token),
                           RedisGet(session_token).email, FALSE)
              /\ UNCHANGED <<redis_store, issued, logged_out>>
           \/ /\ tasks[r].pc = "redis_delete"
              /\ Goes(r, "done", tasks[r].session, None, FALSE)
              /\ redis_store' = Remove(redis_store, session_token)
              /\ logged_out' = IF tasks[r].op = "logout" /\ session_token \in 1..issued
                               THEN logged_out \cup {session_token}
                               ELSE logged_out
              /\ UNCHANGED issued
    /\ UNCHANGED active_sessions
    /\ LoopFrame

\* The executor has finished the model call and the loop resumes the chat
\* handler, which returns the reply or raises.
ModelReply(r) ==
    /\ MayRun(r)
    /\ tasks[r].pc = "model_wait"
    /\ Goes(r, "done", tasks[r].session, tasks[r].value, FALSE)
    /\ UNCHANGED <<active_sessions, redis_store, issued, logged_out>>
    /\ LoopFrame

LoopNext ==
    \/ \E r \in Requests, op \in {"chat", "logout"}, session_token \in CookieValues :
           Arrive(r, op, session_token)
    \/ \E r \in Requests : Arrive(r, "login", MissingToken)
    \/ \E r \in Requests : LoginMapStep(r)
    \/ \E r \in Requests : VerifyMapStep(r)
    \/ \E r \in Requests : LogoutMapStep(r)
    \/ \E r \in Requests : RedisCall(r)
    \/ \E r \in Requests : RedisReply(r)
    \/ \E r \in Requests : ModelReply(r)

\* No call in flight, no start_session request, the executor idle.
SideIdle ==
    /\ sends = 0
    /\ backstory = ""
    /\ PoolIdle
    /\ LoopIdle
    /\ chats = <<>>

(***************************************************************************)
(* Requests to the provider (src/main.py 47-54, 359-364, 387-400).         *)
(*                                                                         *)
(* bedrock_client is built with retries = {max_attempts: 5, mode:          *)
(* standard}: inside one invoke_model call botocore sends the request      *)
(* again when the provider answers with a throttling or a transient error, *)
(* as long as attempts and its retry quota are left, and raises the        *)
(* ClientError only when it gives up.  The handlers see one call.          *)
(***************************************************************************)
max_attempts == 5

\* An invoke_model call is running in an executor thread.
InFlight ==
    /\ bedrock_client
    /\ chat_pc = "awaiting" \/ rep_pc \in {"main", "attempt"} \/ start_pc = "backstory"

\* botocore may send the request of the call in flight once more.
SdkMayResend == sends < max_attempts - 1

\* The provider throttled the request and botocore sends it again.
SdkResend ==
    /\ InFlight
    /\ SdkMayResend
    /\ sends' = sends + 1
    /\ UNCHANGED <<fit_vars, session_vars, chat_vars, report_vars, gate_vars,
                   side_vars>>

\* f"Trauma from {diseases.split(',')[0].strip()}."
FallbackBackstory == "Trauma from depression."

\* Faulty variant: the backstory call made a second time after an error.
BackstoryReturnCallsAgain(response) ==
    /\ start_pc = "backstory"
    /\ backstory' = IF Invoke(response).ok THEN Invoke(response).text ELSE backstory
    /\ start_pc' = IF Invoke(response).ok THEN "persona" ELSE "backstory"
    /\ sends' = 0
    /\ UNCHANGED <<fit_vars, session_vars, chat_vars, report_vars, auth, rest_vars>>

\* _generate_unique_backstory resumes: the reply, or the fallback sentence
\* for whatever was raised; start_session goes on to build the persona.
BackstoryReturn(response) ==
    /\ start_pc = "backstory"
    /\ backstory' = IF Invoke(response).ok THEN Invoke(response).text
                    ELSE FallbackBackstory
    /\ start_pc' = "persona"
    /\ sends' = 0
    /\ UNCHANGED <<fit_vars, session_vars, chat_vars, report_vars, auth, rest_vars>>

\* One request to one of the three routes that call the model, its
\* dependency passed.
CallsInit ==
    /\ auth = NoRequest
    /\ SideIdle
    /\ \/ /\ bedrock_client \in BOOLEAN
          /\ chat_request \in ProtectedChatRequests
          /\ chat_pc = "received"
          /\ chat_messages = <<>>
          /\ chat_steps = <<>>
          /\ chat_error = NoError
          /\ chat_reply = ""
          /\ ReportIdle
          /\ start_pc = "idle"
       \/ ChatQuiet /\ ReportInit /\ start_pc = "idle"
       \/ ChatQuiet /\ ReportIdle /\ start_pc = "backstory"

CallsNext ==
    \/ ChatHandle
    \/ \E response \in ProviderResponses : ChatReturn(response)
    \/ \E response \in ProviderResponses : ReportMainReturn(response)
    \/ \E response \in ProviderResponses : ReportAttemptReturn(response)
    \/ ReportBackoffDone
    \/ ReportPacingDone
    \/ \E response \in ProviderResponses : BackstoryReturn(response)
    \/ SdkResend

(***************************************************************************)
(* Specifications.                                                         *)
(***************************************************************************)
FitNext == Fit

InitFit == FitInit /\ SessionIdle /\ ChatIdle /\ ReportIdle /\ GateIdle /\ SideIdle

SpecFit == InitFit /\ [][FitNext]_vars

InitSession == SessionInit /\ FitIdle /\ ChatIdle /\ ReportIdle /\ GateIdle /\ SideIdle

SpecSession == InitSession /\ [][SessionNext]_vars

\* C1: whenever fit_to_token_limit returns, the token counts of the returned
\* messages sum to at most available, so that system prompt + kept messages
\* + reply reserve stay within the total budget.
C1_KeptWithinAvailable ==
    (fit_pc = "done" /\ fit_out.status = "ok")
        => SumTokens(fit_out.messages) <= available(fit_prompt)

InitChat == ChatInit /\ FitIdle /\ SessionIdle /\ ReportIdle /\ GateIdle /\ SideIdle

SpecChat == InitChat /\ [][ChatNext]_vars

InitReport == ReportInit /\ ChatQuiet /\ FitIdle /\ SessionIdle /\ GateIdle /\ SideIdle

SpecReport == InitReport /\ [][ReportNext]_vars

\* Every model call returns or raises, and every sleep ends.
ReportFairness ==
    /\ WF_vars(\E response \in ProviderResponses : ReportMainReturn(response))
    /\ WF_vars(\E response \in ProviderResponses : ReportAttemptReturn(response))
    /\ WF_vars(ReportBackoffDone)
    /\ WF_vars(ReportPacingDone)

SpecReportFair == InitReport /\ [][ReportNext]_vars /\ ReportFairness

InitProtected == SessionInit /\ FitIdle /\ ChatIdle /\ ReportIdle /\ GateIdle /\ SideIdle

SpecProtected == InitProtected /\ [][ProtectedNext]_vars

InitCalls == CallsInit /\ FitIdle /\ SessionIdle

InitPool == FitIdle /\ SessionIdle /\ ChatIdle /\ ReportIdle /\ GateIdle /\ SideIdle

InitLoop == LoopInit /\ FitIdle /\ ChatIdle /\ ReportIdle /\ GateIdle

SpecLoop == InitLoop /\ [][LoopNext]_vars

SpecPool == InitPool /\ [][PoolNext]_vars /\ PoolFairness

SpecCalls == InitCalls /\ [][CallsNext]_vars

InitBackends == SessionIdle /\ FitIdle /\ ChatIdle /\ ReportIdle /\ GateIdle /\ SideIdle

SpecBackends == InitBackends /\ [][BackendsNext]_vars

SpecPayload == InitSession /\ [][PayloadNext]_vars

InitChats ==
    /\ FitIdle /\ SessionIdle /\ ChatIdle /\ ReportIdle /\ GateIdle /\ SideIdle

SpecChats == InitChats /\ [][ChatsNext]_vars

(***************************************************************************)
(* Session claims, checked under SpecSession.                              *)
(***************************************************************************)
Elapsed(t) == now - created[t].created_at

\* C2: session round trip.  For every token create_session returned for a
\* subject s, verify_session returns s as long as less than the TTL has
\* elapsed since the creation and no logout was performed for the token,
\* whatever was done with other tokens in between.
C2_RoundTrip ==
    \A t \in 1..issued :
        (t \notin logged_out /\ Elapsed(t) < SESSION_TTL)
            => verify_session(t) = created[t].email

\* A token verified half a TTL after its creation, after another token was
\* created and logged out.
C2_Witness ==
    \E t \in 1..issued :
        /\ t \notin logged_out
        /\ Elapsed(t) > 0 /\ Elapsed(t) < SESSION_TTL
        /\ last = [op |-> "verify", token |-> t, value |-> created[t].email]
        /\ \E u \in logged_out : u # t

\* C3: once more than the TTL has elapsed since a session's creation,
\* verify_session returns none for its token, then and ever after (the clock
\* only advances).  On the fallback backend a verify of an expired entry
\* removes it from active_sessions, an entry leaves active_sessions only by
\* such a verify or by a logout for its token, and a verify of a token that
\* is not expired leaves active_sessions unchanged.
C3_ExpiredNone ==
    \A t \in 1..issued : Elapsed(t) > SESSION_TTL => verify_session(t) = None

C3_Step ==
    /\ now' >= now
    /\ \A t \in CookieValues :
          (Verify(t) /\ ~redis_client)
              => IF t \in DOMAIN active_sessions /\ Elapsed(t) > SESSION_TTL
                 THEN /\ last'.value = None
                      /\ DOMAIN active_sessions' = (DOMAIN active_sessions) \ {t}
                 ELSE active_sessions' = active_sessions
    /\ \A t \in (DOMAIN active_sessions) \ (DOMAIN active_sessions') :
          \/ last' = [op |-> "logout", token |-> t, value |-> None]
          \/ /\ last' = [op |-> "verify", token |-> t, value |-> None]
             /\ Elapsed(t) > SESSION_TTL

C3_ExpiredStaysInvalid == [](C3_ExpiredNone) /\ [][C3_Step]_vars

\* On the fallback backend a verify has just evicted an expired token that
\* was never logged out.
C3_Witness ==
    \E t \in 1..issued :
        /\ ~redis_client
        /\ t \notin logged_out
        /\ Elapsed(t) > SESSION_TTL
        /\ t \notin DOMAIN active_sessions
        /\ last = [op |-> "verify", token |-> t, value |-> None]

\* C4: after a logout was performed for a token, verify_session returns none
\* for it in every later state, also before the TTL has elapsed, whatever
\* sessions are created, verified or deleted afterwards.
C4_LoggedOutStaysInvalid ==
    /\ \A t \in logged_out : verify_session(t) = None
    /\ (last.op = "verify" /\ last.token \in logged_out) => last.value = None

\* A logged-out token is verified before its TTL has elapsed, while a session
\* created after it is still valid.
C4_Witness ==
    \E t \in logged_out :
        /\ Elapsed(t) < SESSION_TTL
        /\ last = [op |-> "verify", token |-> t, value |-> None]
        /\ \E u \in 1..issued : u > t /\ verify_session(u) # None

(***************************************************************************)
(* Chat claims, checked under SpecChat.                                    *)
(***************************************************************************)
RolesOf(messages) == [j \in 1..Len(messages) |-> messages[j].role]

\* The entries of the request's history whose content is neither empty nor
\* whitespace only, in order.
NonBlank(history) ==
    SelectSeq(history, LAMBDA m : StrLen(m.content.text) > 0)

Handled == chat_pc \in {"rejected", "awaiting"}

ValidationRejected == chat_pc = "rejected" /\ chat_error.status = 400

\* C5: turn validation accepts a history if and only if, with the entries of
\* empty or whitespace-only content dropped, the list is non-empty, no two
\* adjacent messages have the same role and the last message has role user.
\* It rejects [], [user, user] and [user, assistant], and accepts
\* [assistant, user].
C5_TurnValidation ==
    Handled =>
        LET roles == RolesOf(NonBlank(chat_request.history))
        IN  /\ ~ValidationRejected <=>
                  /\ roles # <<>>
                  /\ \A j \in 1..(Len(roles) - 1) : roles[j] # roles[j + 1]
                  /\ roles[Len(roles)] = "user"
            /\ roles = <<>> => ValidationRejected
            /\ roles = <<"user", "user">> => ValidationRejected
            /\ roles = <<"user", "assistant">> => ValidationRejected
            /\ roles = <<"assistant", "user">> => ~ValidationRejected

\* A history with a whitespace-only entry between an assistant and a user
\* turn has been accepted.
C5_Witness ==
    /\ Handled /\ ~ValidationRejected
    /\ Len(chat_request.history) = 3
    /\ StrLen(chat_request.history[2].content.text) = 0
    /\ RolesOf(chat_messages) = <<"assistant", "user">>

(***************************************************************************)
(* Bulk analysis claims, checked under SpecReport.                         *)
(***************************************************************************)
\* The positions of the therapist (role user) messages, in order.
TherapistSeq ==
    SelectSeq([j \in 1..Len(rep_history) |-> j], LAMBDA j : rep_history[j].role = "user")

\* The analysis of the utterance in cur has ended.
ItemDone == cur.item # 0 /\ rep_pc \in {"pacing", "done"}

\* The therapist messages whose analysis has ended.
Analysed ==
    SelectSeq(TherapistSeq, LAMBDA j : j < rep_i \/ (j = rep_i /\ ItemDone))

Statuses == [k \in 1..Len(cur.outcomes) |-> cur.outcomes[k].status]

Analyses == {AnalysisGood, AnalysisNeedsImprovement}

IsFallback(record) ==
    /\ record.improvement \notin Analyses
    /\ record.improvement # ""
    /\ record.needs_improvement = FALSE

LastRecord == improvements[Len(improvements)]

FinalOutcome == cur.outcomes[Len(cur.outcomes)]

ForItem(record, j) ==
    /\ record.therapist_message = Utterance(j)
    /\ record.patient_response =
           IF j < Len(rep_history) /\ rep_history[j + 1].role = "assistant"
           THEN Utterance(j + 1) ELSE ""

\* C6: bulk analysis isolates failures per item.  There is one record per
\* analysed therapist message, in the order of the messages, n records when
\* the request returns; the record of an item whose call failed with an error
\* other than rate-limited is a fallback with needs_improvement = false; a
\* record is determined by its own item's final outcome, and no step changes
\* a record already in the list.
C6_Records ==
    /\ Len(improvements) = Len(Analysed)
    /\ \A k \in 1..Len(improvements) :
          /\ ForItem(improvements[k], Analysed[k])
          /\ improvements[k].improvement \in Analyses \/ IsFallback(improvements[k])
    /\ rep_pc = "done" => Len(improvements) = Len(TherapistSeq)
    /\ ItemDone =>
          /\ ForItem(LastRecord, cur.item)
          /\ IF FinalOutcome.ok /\ FinalOutcome.text # ""
             THEN /\ LastRecord.improvement = FinalOutcome.text
                  /\ LastRecord.needs_improvement =
                         (FinalOutcome.text = AnalysisNeedsImprovement)
             ELSE IsFallback(LastRecord)

C6_RecordsKept ==
    /\ Len(improvements') >= Len(improvements)
    /\ \A k \in 1..Len(improvements) : improvements'[k] = improvements[k]

C6_FailureIsolation == [](C6_Records) /\ [][C6_RecordsKept]_vars

\* Three therapist messages, the second of which failed with a call error:
\* three records, the second a fallback, the others analyses.
C6_Witness ==
    /\ rep_pc = "done"
    /\ Len(improvements) = 3
    /\ improvements[1].improvement \in Analyses
    /\ improvements[2].improvement =
           FallbackText("500: Bedrock error: ValidationException")
    /\ improvements[3].improvement \in Analyses

\* C7 as stated: a bulk report request never ends with an error, whatever
\* outcomes its model calls have.
C7_NeverFails == rep_history # <<>> => rep_pc # "failed"

\* C7 amended: the request ends with an error only when the main report call
\* failed, before any utterance was analysed; once the main report call has
\* returned, the request cannot fail or get stuck whatever outcomes the
\* per-utterance calls have, and it returns one record per therapist message.
C7_BulkNeverFails ==
    /\ rep_pc = "failed" => (rep_report = None /\ cur = NoItem /\ improvements = <<>>)
    /\ rep_report # None => rep_pc # "failed"
    /\ rep_pc \notin {"done", "failed"} => ENABLED ReportNext
    /\ rep_pc = "done" =>
          (rep_report # None /\ Len(improvements) = Len(TherapistSeq))

\* A request has returned although an utterance exhausted its retries on
\* rate limits and the last one failed with a call error.
C7_Witness ==
    /\ rep_pc = "done"
    /\ Len(improvements) >= 2
    /\ improvements[1].improvement = FallbackText("429: Rate limit. Wait 10s.")
    /\ ~FinalOutcome.ok /\ FinalOutcome.status = 500

RECURSIVE Pow2(_)
Pow2(k) == IF k = 0 THEN 1 ELSE 2 * Pow2(k - 1)

\* C8: the wait before the second attempt of an utterance is 1 s and before
\* the third 2 s, the delay is 1 again at the first attempt of every
\* utterance, and an utterance whose attempts end rate-limited, rate-limited,
\* analysis text gets the record carrying that analysis.
C8_Backoff ==
    /\ \A k \in 1..Len(cur.waits) : cur.waits[k] = Pow2(k - 1)
    /\ rep_pc = "attempt" =>
          /\ Len(cur.waits) = rep_attempt
          /\ retry_delay = Pow2(rep_attempt)
          /\ \A k \in 1..Len(cur.outcomes) : cur.outcomes[k].status = 429
    /\ (ItemDone /\ Statuses = <<429, 429, 200>> /\ FinalOutcome.text # "") =>
          /\ cur.waits = <<1, 2>>
          /\ LastRecord.improvement = FinalOutcome.text
          /\ LastRecord.improvement \in Analyses
          /\ ForItem(LastRecord, cur.item)

\* The second therapist message succeeded at its third attempt, after the
\* first one had used its own retries.
C8_Witness ==
    /\ ItemDone
    /\ Statuses = <<429, 429, 200>>
    /\ cur.waits = <<1, 2>>
    /\ Len(improvements) = 2
    /\ improvements[1].improvement = FallbackText("429: Rate limit. Wait 10s.")
    /\ improvements[2].improvement = AnalysisNeedsImprovement
    /\ improvements[2].needs_improvement = TRUE

\* C9: at most 3 model calls per utterance; after a third rate-limited result
\* there is no further attempt and no further backoff wait, the utterance
\* gets a fallback record with needs_improvement = false, and the loop goes
\* on to the next therapist message.
C9_Bounded ==
    /\ cur.calls <= 3
    /\ Len(cur.outcomes) <= cur.calls
    /\ Statuses = <<429, 429, 429>> =>
          /\ rep_pc \in {"pacing", "done"}
          /\ cur.calls = 3
          /\ cur.waits = <<1, 2>>
          /\ ForItem(LastRecord, cur.item)
          /\ IsFallback(LastRecord)

C9_GoesOn ==
    (Statuses = <<429, 429, 429>> /\ rep_pc = "pacing") =>
        LET j == NextTherapist(rep_history, rep_i + 1)
        IN  /\ improvements' = improvements
            /\ IF j = 0 THEN rep_pc' = "done"
               ELSE /\ rep_pc' = "attempt" /\ rep_i' = j /\ rep_attempt' = 0
                    /\ cur' = [item |-> j, calls |-> 1, waits |-> <<>>,
                               outcomes |-> <<>>]

C9_AtMostThreeAttempts == [](C9_Bounded) /\ [][C9_GoesOn]_vars

\* The first therapist message was rate-limited three times and the first
\* attempt for the second one is under way.
C9_Witness ==
    /\ rep_pc = "attempt"
    /\ cur.item = 2 /\ cur.calls = 1
    /\ Len(improvements) = 1
    /\ improvements[1].improvement = FallbackText("429: Rate limit. Wait 10s.")
    /\ improvements[1].needs_improvement = FALSE

\* C10: an attempt that fails with an error other than rate-limited is the
\* utterance's last: no backoff wait and no model call follow it for that
\* utterance, and the utterance gets a fallback record.
C10_NoRetryOnError ==
    \A k \in 1..Len(cur.outcomes) :
        (~cur.outcomes[k].ok /\ cur.outcomes[k].status # 429) =>
            /\ k = Len(cur.outcomes)
            /\ rep_pc \in {"pacing", "done"}
            /\ cur.calls = k
            /\ Len(cur.waits) = k - 1
            /\ ForItem(LastRecord, cur.item)
            /\ IsFallback(LastRecord)

\* An utterance was rate-limited once, waited 1 s, and then failed with a
\* call error: two calls, one wait, a fallback record.
C10_Witness ==
    /\ ItemDone
    /\ Statuses = <<429, 500>>
    /\ cur.calls = 2 /\ cur.waits = <<1>>
    /\ IsFallback(LastRecord)

(***************************************************************************)
(* Trimming claims, checked under SpecFit.                                 *)
(***************************************************************************)
Fitted == fit_pc = "done" /\ fit_out.status = "ok"

\* How many of the oldest input messages the call left out.
Dropped == Len(fit_in) - Len(fit_out.messages)

\* The positions of the returned messages whose content is not the input's.
Rewritten ==
    {j \in 1..Len(fit_out.messages) :
         fit_out.messages[j].content # fit_in[Dropped + j].content}

\* The content a truncation makes of an input message under this prompt.
Cut(content) == AppendEllipsis(Slice(content, max_chars(available(fit_prompt))))

\* C11: the returned list is, position by position, a contiguous suffix of
\* the input in the input's order: each returned message is the input message
\* of the same position from the end, with its content either untouched or
\* truncated, and the newest input message is always among the kept ones.
C11_SuffixInOrder ==
    Fitted =>
        /\ Dropped >= 0
        /\ \A j \in 1..Len(fit_out.messages) :
              /\ fit_out.messages[j].role = fit_in[Dropped + j].role
              /\ \/ fit_out.messages[j].content = fit_in[Dropped + j].content
                 \/ fit_out.messages[j].content = Cut(fit_in[Dropped + j].content)
        /\ fit_in # <<>> => fit_out.messages # <<>>

\* Of three messages the oldest was dropped, the middle one was kept
\* truncated and the newest one, of the other role, was kept as it was.
C11_Witness ==
    /\ Fitted
    /\ Len(fit_in) = 3 /\ Dropped = 1
    /\ Rewritten = {1}
    /\ fit_in[2].role # fit_in[3].role
    /\ fit_in[2].content # fit_in[3].content

\* C12 as stated: whenever system prompt + messages + reply reserve are within
\* the total budget, the call returns its input unchanged.
C12_UnchangedWithinBudget ==
    (fit_pc = "done" /\
     count_tokens(fit_prompt) + SumTokens(fit_in) + MAX_TOKENS_CHAT * 10
         <= MAX_TOTAL_TOKENS * 10)
        => (fit_out.status = "ok" /\ fit_out.messages = fit_in)

\* C12 amended: whenever available = total budget - reply reserve - system
\* prompt - 100 is at least 500 and the messages cost at most available, the
\* call returns its input unchanged: same messages, same order, same contents.
C12_UnchangedWithinAvailable ==
    (fit_pc = "done" /\ available(fit_prompt) >= 500 * 10
                     /\ SumTokens(fit_in) <= available(fit_prompt))
        => (fit_out.status = "ok" /\ fit_out.messages = fit_in)

\* Three messages of both roles that fit in the 500.2 tokens a long system
\* prompt leaves were returned as they were.
C12_Witness ==
    /\ Fitted
    /\ Len(fit_in) = 3
    /\ fit_in[2].role # fit_in[3].role
    /\ available(fit_prompt) < 501 * 10
    /\ fit_out.messages = fit_in

\* C13: trimming is idempotent: trimming the returned messages again under
\* the same system prompt returns them as they are.
C13_Idempotent ==
    Fitted => fit_to_token_limit(fit_out.messages, fit_prompt) = fit_out

\* C14: in one call at most one message has its content rewritten.
C14_AtMostOneRewritten == Fitted => Cardinality(Rewritten) <= 1

\* The n newest of the ten turns fit untruncated.
FitUntruncated(n) == n * count_tokens(Words(77, 5)) <= available(fit_prompt)

\* C15: of ten turns of 100 tokens each, the newest turns that fit in
\* available are returned untruncated (four when available = 450), the turn
\* before them is returned truncated only if its recomputed cost still fits
\* in the room that is left, and no older turn is returned.
C15_TenTurns ==
    (fit_pc = "done" /\ fit_in = TenTurns) =>
        /\ fit_out.status = "ok"
        /\ \A n \in 0..10 :
              (FitUntruncated(n) /\ (n = 10 \/ ~FitUntruncated(n + 1))) =>
                  /\ Len(fit_out.messages) \in {n, n + 1}
                  /\ \A j \in 1..n :
                        fit_out.messages[Len(fit_out.messages) + 1 - j]
                            = fit_in[11 - j]
                  /\ Len(fit_out.messages) = n + 1 =>
                        /\ n < 10
                        /\ fit_out.messages[1].content = Cut(fit_in[10 - n].content)
                        /\ SumTokens(fit_out.messages) <= available(fit_prompt)

(***************************************************************************)
(* Chat claims on trimming errors, rule order and call outcomes, checked   *)
(* under SpecChat.                                                         *)
(***************************************************************************)
Cleaned == CleanMessages(chat_request.history)

TooLittleRoom == available(chat_request.persona_prompt) < 500 * 10

ConfigError == [status |-> 500, detail |-> "System prompt too long"]

NoCall == \A k \in 1..Len(chat_steps) : chat_steps[k] # "call"

\* C16: fit_to_token_limit fails with "System prompt too long" exactly when
\* available = MAX_TOTAL_TOKENS - MAX_TOKENS_CHAT - count(system_prompt) - 100
\* is below 500; a chat request that fails so is rejected with its messages
\* as they were after cleaning and without a model call, and no other chat
\* request ends with that error.
C16_ConfigError ==
    /\ fit_to_token_limit(Cleaned, chat_request.persona_prompt).status = "error"
          <=> TooLittleRoom
    /\ TooLittleRoom =>
          fit_to_token_limit(Cleaned, chat_request.persona_prompt) =
              [status |-> "error", detail |-> ConfigError.detail, messages |-> <<>>]
    /\ (chat_pc # "received" /\ TooLittleRoom) =>
          /\ chat_pc = "rejected"
          /\ NoCall
          /\ chat_reply = ""
          /\ chat_messages = Cleaned
          /\ ValidateTurns(Cleaned) = "ok" => chat_error = ConfigError
    /\ chat_error = ConfigError =>
          (TooLittleRoom /\ chat_pc = "rejected" /\ ValidateTurns(Cleaned) = "ok")

\* A valid history whose last message is far too long for the 498.9 tokens
\* the system prompt leaves was rejected with the configuration error.
C16_Witness ==
    /\ chat_pc = "rejected"
    /\ chat_error = ConfigError
    /\ available(chat_request.persona_prompt) = 4989
    /\ Len(chat_messages) = 2
    /\ chat_messages[2].content = Words(1000, 5)

Alternates(roles) == \A j \in 1..(Len(roles) - 1) : roles[j] # roles[j + 1]

Rejection(detail) == [status |-> 400, detail |-> detail]

\* C17: the rules are checked in the order empty history, consecutive same
\* role, wrong last speaker, and the first violated rule gives the error:
\* [assistant, assistant] is rejected with the consecutive-same-role error,
\* and the three rules have three different error messages.
C17_FirstViolationWins ==
    chat_pc # "received" =>
        LET roles == RolesOf(NonBlank(chat_request.history))
        IN  /\ roles = <<>> => chat_error = Rejection("Empty history")
            /\ (roles # <<>> /\ ~Alternates(roles)) =>
                  chat_error = Rejection("Wait for patient reply")
            /\ (roles # <<>> /\ Alternates(roles) /\ roles[Len(roles)] # "user") =>
                  chat_error = Rejection("Therapist must speak last")
            /\ roles = <<"assistant", "assistant">> =>
                  chat_error.detail = "Wait for patient reply"
            /\ Cardinality({ValidateTurns(<<>>),
                            ValidateTurns(<<[role |-> "user", content |-> Words(40, 5)],
                                            [role |-> "user", content |-> Words(40, 5)]>>),
                            ValidateTurns(<<[role |-> "assistant",
                                             content |-> Words(40, 5)]>>),
                            "ok"}) = 4

\* [assistant, assistant] was rejected with the consecutive-same-role error.
C17_Witness ==
    /\ chat_pc = "rejected"
    /\ RolesOf(chat_messages) = <<"assistant", "assistant">>
    /\ chat_error = Rejection("Wait for patient reply")

Throttled(response) ==
    response.exception = "ClientError" /\ response.code = "ThrottlingException"

HasText(response) ==
    /\ response.exception = "none"
    /\ response.content # <<>>
    /\ response.content[1].type = "text"

CallFailedDetails ==
    {"Bedrock error: ValidationException", "Call failed: ReadTimeoutError",
     "Call failed: No text in response"}

\* The invoke of the chat request has ended.
Invoked ==
    \/ chat_pc \in {"replied", "failed"}
    \/ chat_pc = "rejected" /\ chat_steps = <<"validate", "trim">>

OutcomeKinds ==
    {k \in {"reply", "rate-limited", "call-failed", "not-ready"} :
        \/ k = "reply" /\ chat_pc = "replied" /\ chat_error = NoError
        \/ k = "rate-limited" /\ chat_pc = "failed" /\ chat_error.status = 429
        \/ k = "call-failed" /\ chat_pc = "failed" /\ chat_error.status = 500
                             /\ chat_error.detail \in CallFailedDetails
        \/ k = "not-ready" /\ chat_pc = "rejected" /\ chat_error = Raise(NotReady)}

\* C20: every invoke ends in exactly one of reply text, rate-limited,
\* call-failed and not-ready; it ends rate-limited if and only if the
\* provider raised a ClientError with code ThrottlingException, with the
\* reply text if and only if the response starts with a text block, and
\* call-failed for every other error or response.
C20_OneOutcome == Invoked => Cardinality(OutcomeKinds) = 1

C20_Step ==
    \A response \in ProviderResponses :
        ChatReturn(response) =>
            /\ (chat_pc' = "failed" /\ chat_error'.status = 429) <=> Throttled(response)
            /\ chat_pc' = "replied" <=> HasText(response)
            /\ HasText(response) => chat_reply' = response.content[1].text
            /\ (~Throttled(response) /\ ~HasText(response)) =>
                  /\ chat_pc' = "failed"
                  /\ chat_error'.status = 500
                  /\ chat_error'.detail \in CallFailedDetails

C20_Outcomes == [](C20_OneOutcome) /\ [][C20_Step]_vars

\* A call ended with a provider error other than throttling, as call-failed.
C20_Witness ==
    /\ chat_pc = "failed"
    /\ chat_error = [status |-> 500, detail |-> "Bedrock error: ValidationException"]
    /\ OutcomeKinds = {"call-failed"}

\* The exception _invoke_bedrock_claude raises when the client is absent.
NotReadyError == [status |-> 500, detail |-> "Bedrock not ready"]

\* C19: without a Bedrock client every invoke fails with the not-ready error
\* before anything is handed to the executor: no call is dispatched, no
\* provider response is ever consumed and no reply is returned; only such a
\* request ends with that error; and the client, set at startup, never
\* changes afterwards.
C19_State ==
    /\ ~bedrock_client =>
          /\ chat_pc \in {"received", "rejected"}
          /\ NoCall
          /\ chat_reply = ""
          /\ (chat_pc = "rejected" /\ ValidateTurns(Cleaned) = "ok" /\ ~TooLittleRoom)
                => (chat_error = NotReadyError /\ chat_steps = <<"validate", "trim">>)
    /\ chat_error = NotReadyError => (~bedrock_client /\ chat_pc = "rejected")

C19_Step ==
    /\ bedrock_client' = bedrock_client
    /\ ~bedrock_client => \A response \in ProviderResponses : ~ChatReturn(response)

C19_NotReady == [](C19_State) /\ [][C19_Step]_vars

\* A valid request that fits was refused as not ready.
C19_Witness ==
    /\ ~bedrock_client
    /\ chat_pc = "rejected"
    /\ chat_error = NotReadyError
    /\ RolesOf(chat_messages) = <<"user", "assistant", "user">>

(***************************************************************************)
(* Authentication claim, checked under SpecProtected.                      *)
(***************************************************************************)
\* The cookie carries no token, a token that was never issued, a token whose
\* session is older than the TTL, or a token that was logged out.
Invalid(session_token) ==
    \/ session_token = MissingToken
    \/ session_token \notin 1..issued
    \/ /\ session_token \in 1..issued
       /\ \/ Elapsed(session_token) > SESSION_TTL
          \/ session_token \in logged_out

HandlersIdle ==
    /\ chat_pc = "idle" /\ chat_steps = <<>> /\ chat_messages = <<>>
    /\ rep_pc = "idle" /\ improvements = <<>>
    /\ start_pc = "idle"
    /\ fit_pc = "idle"

\* C18: every request to chat, start_session or generate_report goes through
\* the session check: with a missing, unknown, expired or logged-out token it
\* is rejected with 401 "Not authenticated" and its handler never starts (no
\* turn validation, no trimming, no model call); a request whose handler
\* starts carries a token whose session is valid, and runs as its subject.
C18_Checked ==
    /\ auth.status = 401 =>
          (auth.detail = "Not authenticated" /\ auth.user = None /\ HandlersIdle)
    /\ auth.status = 200 =>
          /\ auth.token \in 1..issued
          /\ auth.user = created[auth.token].email
    /\ ~HandlersIdle => auth.status = 200

C18_Step ==
    \A route \in Routes, session_token \in CookieValues :
        Protected(route, session_token) =>
            /\ Invalid(session_token) =>
                  /\ auth'.status = 401
                  /\ UNCHANGED <<fit_vars, chat_vars, report_vars, start_pc>>
            /\ auth'.status = 200 => ~Invalid(session_token)
            /\ (~Invalid(session_token) /\ Elapsed(session_token) < SESSION_TTL) =>
                  /\ auth'.status = 200
                  /\ route = "chat" => chat_pc' = "received"
                  /\ route = "generate_report" => rep_pc' = "main"
                  /\ route = "start_session" => start_pc' = "backstory"

C18_NotAuthenticated == [](C18_Checked) /\ [][C18_Step]_vars

\* A chat request with the token of an expired session that was never logged
\* out has been rejected, while another route had its own rejected request.
C18_Witness ==
    /\ auth.route = "chat"
    /\ auth.status = 401
    /\ auth.token \in 1..issued
    /\ auth.token \notin logged_out
    /\ Elapsed(auth.token) > SESSION_TTL
    /\ HandlersIdle

(***************************************************************************)
(* Requests to the provider, checked under SpecCalls.                      *)
(***************************************************************************)
RateLimitedError == [status |-> 429, detail |-> "Rate limit. Wait 10s."]

\* A call of chat, of the main report or of the backstory is in flight.
SingleCallInFlight ==
    /\ bedrock_client
    /\ chat_pc = "awaiting" \/ rep_pc = "main" \/ start_pc = "backstory"

C21_ChatSurfaces ==
    \A response \in ProviderResponses :
        (Throttled(response) /\ ChatReturn(response)) =>
            /\ chat_pc' = "failed"
            /\ chat_error' = RateLimitedError

C21_Sends == sends <= max_attempts - 1

C21_Step ==
    /\ C21_ChatSurfaces
    /\ chat_pc \in {"rejected", "failed", "replied"} => chat_pc' = chat_pc
    /\ \A response \in ProviderResponses :
           (Throttled(response) /\ bedrock_client /\ ReportMainReturn(response)) =>
               /\ rep_pc' = "failed"
               /\ rep_error' = RateLimitedError
    /\ rep_pc' = "main" => rep_pc = "main"
    /\ rep_pc = "failed" => rep_pc' = "failed"
    /\ \A response \in ProviderResponses :
           (~Invoke(response).ok /\ BackstoryReturn(response)) =>
               /\ start_pc' = "persona"
               /\ backstory' = FallbackBackstory
    /\ start_pc' = "backstory" => start_pc = "backstory"
    /\ \A response \in ProviderResponses :
           (/\ Throttled(response) /\ bedrock_client /\ rep_attempt < max_retries - 1
            /\ ReportAttemptReturn(response)) => rep_pc' = "backoff"
    /\ rep_pc = "backoff" =>
           (rep_pc' = "attempt" /\ cur'.item = cur.item /\ cur'.calls = cur.calls + 1)

VisibleKeys == {t \in DOMAIN redis_store : RedisHas(t)}

\* The sessions verify_session accepts, each with its subject.
ValidSessions == [t \in {u \in 1..issued : verify_session(u) # None} |-> verify_session(t)]

\* The cookie names no valid session: there is none, it was never issued,
\* its session was deleted or has expired.
Dead(session_token) == verify_session(session_token) = None

C22_TwiceIsOnce(session_token) ==
    (last.op = "logout" /\ last.token = session_token)
        => UNCHANGED <<active_sessions, redis_store, logged_out, last>>

\* C22 as stated: logout for a cookie that names no valid session ends
\* without error and leaves the session store as it was, and a second logout
\* leaves what the first left.
C22_StoreUnchanged ==
    \A session_token \in CookieValues :
        Logout(session_token) =>
            /\ last'.value = None
            /\ Dead(session_token) =>
                   /\ active_sessions' = active_sessions
                   /\ VisibleKeys' = VisibleKeys
            /\ C22_TwiceIsOnce(session_token)

C22_Idempotent == [][C22_StoreUnchanged]_vars

C22_Step ==
    \A session_token \in CookieValues :
        Logout(session_token) =>
            /\ last'.value = None
            /\ Dead(session_token) =>
                   /\ ValidSessions' = ValidSessions
                   /\ VisibleKeys' = VisibleKeys
                   /\ active_sessions' =
                         IF session_token \in DOMAIN active_sessions
                         THEN Remove(active_sessions, session_token)
                         ELSE active_sessions
                   /\ session_token \in DOMAIN active_sessions
                         => Expired(active_sessions[session_token])
            /\ C22_TwiceIsOnce(session_token)

\* C22, amended: logout for a cookie that names no valid session ends
\* without error and leaves the valid sessions as they were; the stored
\* entries stay as they were too, except that the in-process map loses the
\* entry of an expired session no verify has evicted yet; a second logout
\* changes nothing.
C22_ValidSessionsUnchanged == [][C22_Step]_vars

\* A logout with a cookie value that was never issued has run and the
\* session created before it is still valid.
C22_Witness ==
    /\ last = [op |-> "logout", token |-> UnknownToken, value |-> None]
    /\ issued >= 1
    /\ verify_session(1) # None

(***************************************************************************)
(* The two backends, checked under SpecBackends.                           *)
(***************************************************************************)
C23_SameNow ==
    \A session_token \in CookieValues :
        VerifySessionOn(TRUE, session_token) = VerifySessionOn(FALSE, session_token)

C23_Step ==
    \A session_token \in CookieValues :
        BothVerify(session_token) =>
            /\ last'.value = VerifySessionOn(TRUE, session_token)
            /\ \A t \in CookieValues :
                   VerifySessionOn(TRUE, t)' = VerifySessionOn(FALSE, t)'

\* C23: after every sequence of create, verify, delete and clock advances,
\* a verify of any cookie value returns the same (subject or none) from the
\* process on Redis, where the key expires 86400 s after it was set, as from
\* the process on the in-process map, which compares now - created_at with
\* 86400; also when exactly 86400 s have passed since the session's creation.
C23_Interchangeable == [](C23_SameNow) /\ [][C23_Step]_vars

\* Exactly 86400 s after its creation a session was verified, and both
\* processes returned its subject.
C23_Witness ==
    /\ issued >= 1
    /\ Elapsed(1) = SESSION_TTL
    /\ last = [op |-> "verify", token |-> 1, value |-> created[1].email]
    /\ VerifySessionOn(TRUE, 1) = created[1].email
    /\ 1 \in DOMAIN active_sessions /\ RedisHas(1)

(***************************************************************************)
(* The order of the steps of a chat request, checked under SpecChat.       *)
(***************************************************************************)
ChatOrder == <<"validate", "trim", "call">>

\* The steps completed so far are the first ones of the order.
InOrder == Len(chat_steps) <= 3 /\ chat_steps = SubSeq(ChatOrder, 1, Len(chat_steps))

Trimmed == fit_to_token_limit(Cleaned, chat_request.persona_prompt)

C24_State ==
    (chat_pc # "received") =>
        /\ InOrder
        /\ Len(chat_steps) >= 1 <=> ValidateTurns(Cleaned) = "ok"
        /\ Len(chat_steps) >= 2 =>
               /\ Trimmed.status = "ok"
               /\ chat_messages = Trimmed.messages
        /\ Len(chat_steps) = 3 <=> chat_pc \in {"awaiting", "replied", "failed"}
        /\ ValidateTurns(Cleaned) # "ok" =>
               /\ chat_pc = "rejected"
               /\ chat_error = Rejection(ValidateTurns(Cleaned))
               /\ chat_messages = Cleaned
               /\ chat_steps = <<>>

C24_Step ==
    /\ chat_pc = "rejected" => UNCHANGED <<chat_pc, chat_steps, chat_messages>>
    /\ chat_pc # "received" => UNCHANGED <<chat_steps, chat_messages>>

\* C24: the steps of a chat request run in the order validation, trimming,
\* model call: trimming is done only when all three validation rules passed,
\* the call is dispatched only with the trimmed messages, and a history that
\* validation rejects is neither trimmed (the messages stay as cleaning left
\* them) nor sent to the model, then or later.
C24_StrictOrder == [](C24_State) /\ [][C24_Step]_vars

\* A history whose last message is over a thousand words long fails
\* validation under a prompt that would have had it cut: it is still whole.
C24_Witness ==
    /\ chat_pc = "rejected"
    /\ chat_steps = <<>>
    /\ chat_error = Rejection("Wait for patient reply")
    /\ Len(chat_messages) = 2
    /\ chat_messages[2].content = Words(1000, 5)
    /\ Trimmed.status = "ok"
    /\ Trimmed.messages # Cleaned

(***************************************************************************)
(* The executor, checked under SpecPool.                                   *)
(***************************************************************************)
C25_AtMostTen ==
    /\ Cardinality(pool_running) <= max_workers
    /\ \A k \in 1..Len(pool_queue) : pool_queue[k] \notin pool_running \cup pool_done

\* Calls start in the order of their submission, a call starts only on a
\* free worker, and a call submitted while none is free is queued.
C25_Step ==
    /\ \A c \in Calls :
           (c \in pool_running' /\ c \notin pool_running) =>
               /\ Cardinality(pool_running) < max_workers
               /\ Len(pool_queue) >= 1 /\ c = pool_queue[1]
               /\ \A d \in 1..(c - 1) : d \in pool_running \cup pool_done
    /\ (pool_submitted' # pool_submitted /\ Cardinality(pool_running) = max_workers) =>
           /\ pool_running' = pool_running
           /\ pool_queue' = Append(pool_queue, pool_submitted')

C25_Executed == \A c \in Calls : (pool_submitted >= c) ~> (c \in pool_done)

\* C25: at every moment at most 10 model calls are executing, whatever the
\* number of requests; a call submitted while 10 are executing waits in the
\* queue and the waiting calls are started in the order they were submitted,
\* each on a worker that has become free; every submitted call is executed
\* in the end, given that executing calls end.
C25_BoundedPool == [](C25_AtMostTen) /\ [][C25_Step]_vars /\ C25_Executed

\* Ten calls are executing and the eleventh, submitted since, waits in the
\* queue.
C25_Witness ==
    /\ pool_running = 1..max_workers
    /\ pool_done = {}
    /\ pool_queue = <<max_workers + 1>>

(***************************************************************************)
(* The event loop, checked under SpecLoop.                                 *)
(***************************************************************************)
\* The handler of r has sent something over the network and waits for the
\* answer: of Redis, or of the model endpoint.
AwaitsNetwork(r) ==
    tasks[r].pc \in {"redis_setex", "redis_get", "redis_delete", "model_wait"}

\* C26: a handler that waits for a network response, of the model endpoint
\* or of the session backend, does not hold the event loop: the loop is free
\* to run any other request's handler that is ready.
C26_LoopNeverBlocked ==
    \A r \in Requests :
        AwaitsNetwork(r) =>
            /\ loop_owner # r
            /\ \A q \in Requests : tasks[q].pc = "ready" => MayRun(q)

\* The handler of r stands between two statements of create_session,
\* verify_session or logout on the in-process map.
MidOperation(r) == tasks[r].pc \in {"checked", "read"}

C27_State ==
    ~redis_client =>
        /\ \A r \in Requests : tasks[r].value # "KeyError"
        /\ \A r \in Requests : MidOperation(r) => loop_owner = r
        /\ \A r, q \in Requests : (MidOperation(r) /\ MidOperation(q)) => r = q
        /\ \A r \in Requests :
               MidOperation(r) => tasks[r].token \in DOMAIN active_sessions

C27_Step ==
    ~redis_client =>
        \A r \in Requests :
            (tasks[r].op = "chat" /\ tasks[r].pc # "model_wait"
                                  /\ tasks'[r].pc = "model_wait") =>
                /\ tasks[r].token \notin logged_out
                /\ tasks[r].token \in DOMAIN active_sessions
                /\ tasks'[r].value = active_sessions[tasks[r].token].email

\* C27: on the in-process map, however the requests that create, verify and
\* log out sessions interleave, a request's membership test and the read or
\* del that follows it are not separated by a step of another request: no
\* request ends with a KeyError, and verify returns a subject only for a
\* token that is in the map and whose logout has not completed.
C27_Exclusive == [](C27_State) /\ [][C27_Step]_vars

\* A chat request with the cookie of the session awaits the model, a logout
\* with the same cookie has completed meanwhile, and a later chat request
\* with it was refused.
C27_Witness ==
    /\ ~redis_client
    /\ tasks[1] = [op |-> "chat", token |-> 1, pc |-> "model_wait",
                   session |-> created[1], value |-> created[1].email]
    /\ tasks[2].op = "logout" /\ tasks[2].token = 1 /\ tasks[2].pc = "done"
    /\ tasks[3].op = "chat" /\ tasks[3].token = 1 /\ tasks[3].pc = "done"
    /\ tasks[3].value = None
    /\ logged_out = {1}

(***************************************************************************)
(* Session records, checked under SpecSession.                             *)
(***************************************************************************)
\* What is stored under a token is what its login stored.
C28_WriteOnce ==
    /\ DOMAIN active_sessions \subseteq 1..issued
    /\ DOMAIN redis_store \subseteq 1..issued
    /\ DOMAIN created = 1..issued
    /\ \A t \in DOMAIN active_sessions : active_sessions[t] = created[t]
    /\ \A t \in DOMAIN redis_store :
           /\ redis_store[t].data = created[t]
           /\ redis_store[t].expire_at = created[t].created_at + SESSION_TTL

\* A token is valid exactly when it was created, no logout was performed for
\* it and at most 86400 s have passed since its creation.
C28_ValidIff ==
    \A session_token \in CookieValues :
        /\ verify_session(session_token) # None <=>
               /\ session_token \in 1..issued
               /\ session_token \notin logged_out
               /\ Elapsed(session_token) <= SESSION_TTL
        /\ verify_session(session_token) # None =>
               verify_session(session_token) = created[session_token].email

C28_Step ==
    /\ \A t \in 1..issued : created'[t] = created[t]
    /\ issued' # issued =>
           /\ issued' = issued + 1
           /\ \E email \in Emails : Login(email, TRUE)
           /\ last' = [op |-> "create", token |-> issued', value |-> created'[issued'].email]
           /\ created'[issued'].created_at = now
    /\ \A email \in Emails :
           Login(email, FALSE) =>
               UNCHANGED <<issued, created, active_sessions, redis_store>>
    /\ \A session_token \in CookieValues :
           Verify(session_token) =>
               /\ \A t \in DOMAIN active_sessions' : active_sessions'[t] = active_sessions[t]
               /\ \A t \in DOMAIN redis_store' : redis_store'[t] = redis_store[t]

\* C28: a session record is created only by a login whose credentials
\* verified, its subject and created_at never change afterwards and a verify
\* leaves every record it keeps as it was, so that a token is valid at time
\* t exactly when it was created, not deleted and t - created_at <= 86400.
C28_AbsoluteTtl == [](C28_WriteOnce /\ C28_ValidIff) /\ [][C28_Step]_vars

\* A session was verified exactly 86400 s after its creation, the clock
\* having advanced twice since, and was found valid.
C28_Witness ==
    /\ issued >= 1
    /\ ticks = 2
    /\ Elapsed(1) = SESSION_TTL
    /\ 1 \notin logged_out
    /\ last = [op |-> "verify", token |-> 1, value |-> created[1].email]

(***************************************************************************)
(* Malformed payloads, checked under SpecPayload.                          *)
(***************************************************************************)
\* The value is not the JSON text of an object with subject and created_at.
Malformed(data) == ~HasCreatedAt(data) \/ ~HasEmail(data)

C29_None ==
    \A session_token \in 1..issued :
        (redis_client /\ RedisHas(session_token) /\ Malformed(RedisGet(session_token)))
            => verify_session(session_token) = None

C29_Step ==
    \A session_token \in 1..issued :
        (/\ redis_client /\ RedisHas(session_token)
         /\ Malformed(RedisGet(session_token))
         /\ Verify(session_token))
            => /\ last'.value = None
               /\ redis_store' = redis_store

\* C29: a stored payload that is not parseable or lacks subject or
\* created_at makes verify_session return none, without an error, and the
\* store is left as it was.
C29_MalformedIsNone == [](C29_None) /\ [][C29_Step]_vars

(***************************************************************************)
(* count_tokens without the tokenizer, checked under SpecFit.              *)
(***************************************************************************)
\* ceil(word_count * 1.3), in tenths of a token.
CeilOfWords(t) == 10 * ((WordCount(t) * 13 + 9) \div 10)

\* The texts fit_to_token_limit has counted or returned.
Counted ==
    {fit_prompt} \cup {fit_in[j].content : j \in DOMAIN fit_in}
                 \cup {fit_out.messages[j].content : j \in DOMAIN fit_out.messages}

\* C30: count_tokens returns a non-negative integer for every text, and
\* without the tokenizer it returns ceil(word_count * 1.3).
C30_IntegerCeil ==
    fit_pc = "done" =>
        \A t \in Counted :
            /\ count_tokens(t) >= 0
            /\ count_tokens(t) % 10 = 0
            /\ count_tokens(t) = CeilOfWords(t)

(***************************************************************************)
(* The text taken from a response, checked under SpecChat.                 *)
(***************************************************************************)
TextBlocks(content) == {i \in DOMAIN content : content[i].type = "text"}

\* The text of the earliest block of type text.
EarliestText(content) ==
    content[CHOOSE i \in TextBlocks(content) :
                \A j \in TextBlocks(content) : i <= j].text

\* C31: whenever the content list of a response holds a block of type
\* text, the invoke succeeds and the reply is the text of the earliest such
\* block, whatever blocks precede it.
C31_FirstTextBlock ==
    [][\A response \in ProviderResponses :
           (/\ ChatReturn(response)
            /\ response.exception = "none"
            /\ TextBlocks(response.content) # {})
               => /\ chat_pc' = "replied"
                  /\ chat_reply' = EarliestText(response.content)]_vars

(***************************************************************************)
(* No state shared between chat requests, checked under SpecChats.         *)
(***************************************************************************)
\* The requests whose call was handed to the model.
SentChats == {r \in DOMAIN chats : chats[r].pc \in {"awaiting", "replied", "failed"}}

\* The requests whose handler has run up to the model call or to a refusal.
HandledChats == {r \in DOMAIN chats : chats[r].pc # "received"}

\* What the handler makes of one request taken alone.
OwnInput(request) ==
    [system_prompt |-> request.persona_prompt,
     messages |-> fit_to_token_limit(CleanMessages(request.history),
                                     request.persona_prompt).messages]

ModelInput(r) ==
    [system_prompt |-> chats[r].system_prompt, messages |-> chats[r].messages]

C32_State ==
    /\ \A r \in SentChats : ModelInput(r) = OwnInput(chats[r].request)
    /\ \A r, q \in HandledChats :
           chats[r].request = chats[q].request =>
               /\ r \in SentChats <=> q \in SentChats
               /\ ModelInput(r) = ModelInput(q)

C32_Step ==
    \A r \in SentChats :
        /\ chats'[r].request = chats[r].request
        /\ ModelInput(r)' = ModelInput(r)

\* C32: the messages and the system prompt sent to the model for a chat
\* request depend on that request's history and persona prompt only: two
\* requests with the same body send the same input whatever other requests,
\* of the same or of another subject, came before or run beside them, and no
\* step of another request changes what a request has sent.
C32_NoSharedState == [](C32_State) /\ [][C32_Step]_vars

\* Two requests of one subject with different bodies, the first still
\* waiting for the model when the second, whose oldest turn was truncated,
\* is sent.
C32_Witness ==
    /\ Len(chats) = 2
    /\ chats[1].current_user = chats[2].current_user
    /\ chats[1].request # chats[2].request
    /\ chats[1].pc = "awaiting"
    /\ chats[2].pc = "awaiting"
    /\ \E j \in DOMAIN chats[2].messages : chats[2].messages[j].content.dots > 0

(***************************************************************************)
(* Pacing between utterances, checked under SpecReport.                    *)
(***************************************************************************)
\* The analysis of an utterance ends: its record, analysis or fallback, is
\* appended.
AnalysisEnds == Len(improvements') = Len(improvements) + 1

\* The first attempt of the analysis of a later utterance is dispatched.
NextUtteranceStarts ==
    rep_i # 0 /\ rep_pc' = "attempt" /\ rep_i' # rep_i

C33_Step ==
    /\ NextUtteranceStarts =>
           /\ rep_pc = "pacing"
           /\ rep_attempt' = 0
           /\ Len(improvements) = Cardinality({j \in 1..rep_i : rep_history[j].role = "user"})
    /\ rep_pc' = "pacing" => rep_pc = "attempt" /\ AnalysisEnds
    /\ (AnalysisEnds /\ NextTherapist(rep_history, rep_i + 1) # 0) => rep_pc' = "pacing"
    /\ rep_pc = "pacing" => rep_pc' \in {"attempt", "done"}
    /\ (rep_pc = "attempt" /\ rep_pc' = "attempt") => FALSE
    /\ rep_pc = "backoff" =>
           /\ rep_pc' = "attempt"
           /\ rep_i' = rep_i
           /\ rep_attempt' = rep_attempt + 1

\* C33: between the end of the analysis of one utterance, success or
\* fallback, and the first attempt of the next utterance's analysis the
\* handler sleeps the pacing wait exactly once; between two attempts of the
\* same utterance it sleeps the backoff wait only.
C33_PacingBetweenUtterances == [][C33_Step]_vars

\* The pacing wait after an analysis that took both retries, with another
\* utterance still to analyse.
C33_Witness ==
    /\ rep_pc = "pacing"
    /\ rep_i = 1
    /\ cur.waits = <<1, 2>>
    /\ NextTherapist(rep_history, 2) # 0

(***************************************************************************)
(* Where trimming rewrites, checked under SpecFit.                         *)
(***************************************************************************)
\* C34: a message whose content fit_to_token_limit rewrote is the oldest
\* message of the returned list: no older message is kept with it, and every
\* more recent message is returned with the content it came with.
C34_OnlyOldestRewritten ==
    Fitted =>
        /\ \A j \in Rewritten : j = 1
        /\ \A j \in 2..Len(fit_out.messages) :
              fit_out.messages[j] = fit_in[Dropped + j]

(***************************************************************************)
(* Alternation after trimming, checked under SpecChat.                     *)
(***************************************************************************)
\* The request passed turn validation and trimming, and its messages were
\* handed to the model.
HandedToModel == chat_pc \in {"awaiting", "replied", "failed"}

\* How many of the oldest cleaned messages are not among the handed ones.
LeftOut == Len(Cleaned) - Len(chat_messages)

C35_Last == chat_messages[Len(chat_messages)]

\* C35: for a history accepted by turn validation the list handed to the
\* model is not empty, its last message is the last message of the input,
\* with role user, every two adjacent messages have different roles, and the
\* roles are those of the newest input messages in their order.
C35_AlternationKept ==
    HandedToModel =>
        /\ chat_messages # <<>>
        /\ LeftOut >= 0
        /\ C35_Last.role = "user"
        /\ C35_Last.content \in
              { Cleaned[Len(Cleaned)].content,
                AppendEllipsis(Slice(Cleaned[Len(Cleaned)].content,
                    max_chars(available(chat_request.persona_prompt)))) }
        /\ \A j \in 2..Len(chat_messages) :
              chat_messages[j].role # chat_messages[j - 1].role
        /\ \A j \in 1..Len(chat_messages) :
              chat_messages[j].role = Cleaned[LeftOut + j].role

\* Of three long turns the oldest was left out: the list handed to the
\* model starts with the patient's turn and ends with the therapist's.
C35_Witness ==
    /\ chat_pc = "awaiting"
    /\ Len(Cleaned) = 3
    /\ Len(chat_messages) = 2
    /\ chat_messages[1].role = "assistant"
    /\ chat_messages[2].content.dots > 0

(***************************************************************************)
(* Roles forwarded to the model, checked under SpecChat.                   *)
(***************************************************************************)
\* C36: every message chat forwards to the model has the role user or
\* assistant; a history with a message of another role is never sent.
C36_RolesForwarded ==
    HandedToModel =>
        /\ \A j \in 1..Len(chat_messages) :
              chat_messages[j].role \in {"user", "assistant"}
        /\ \A j \in 1..Len(Cleaned) : Cleaned[j].role \in {"user", "assistant"}

(***************************************************************************)
(* Size of a rewritten message, checked under SpecFit.                     *)
(***************************************************************************)
\* C37: a message whose content fit_to_token_limit rewrote is no longer, in
\* characters and in tokens, than it was before the rewrite.
C37_RewriteNeverEnlarges ==
    Fitted =>
        \A j \in Rewritten :
            /\ StrLen(fit_out.messages[j].content) <= StrLen(fit_in[Dropped + j].content)
            /\ count_tokens(fit_out.messages[j].content)
                   <= count_tokens(fit_in[Dropped + j].content)

(***************************************************************************)
(* Session operations touch one token, checked under SpecSession.          *)
(***************************************************************************)
\* The record the store in use holds for a token: a set of one record, or
\* the empty set.
StoredRecord(u) ==
    IF redis_client
    THEN (IF u \in DOMAIN redis_store THEN {redis_store[u]} ELSE {})
    ELSE (IF u \in DOMAIN active_sessions THEN {active_sessions[u]} ELSE {})

\* The tokens the store in use holds a record for.
StoredTokens ==
    IF redis_client THEN DOMAIN redis_store ELSE DOMAIN active_sessions

\* Token u is as it was: its record and its verify result.
Untouched38(u) ==
    /\ StoredRecord(u)' = StoredRecord(u)
    /\ verify_session(u)' = verify_session(u)

C38_Step ==
    /\ \A session_token \in CookieValues :
           (Verify(session_token) \/ Logout(session_token)) =>
               /\ \A u \in (1..issued) \ {session_token} : Untouched38(u)
               /\ StoredRecord(session_token)' \in {StoredRecord(session_token), {}}
    /\ \A email \in Emails :
           Login(email, TRUE) =>
               /\ \A u \in 1..issued : Untouched38(u)
               /\ \A new \in {issued + 1} :
                      /\ StoredRecord(new) = {}
                      /\ StoredRecord(new)' # {}
                      /\ verify_session(new)' = email
               /\ StoredTokens' = StoredTokens \cup {issued + 1}

\* C38: create_session adds exactly one record and changes no other; logout
\* and the eviction done by verify_session remove at most the record of the
\* token they are given; the record and the verify result of every other
\* token, other sessions of the same subject included, are unchanged.
C38_LocalToToken == [][C38_Step]_vars

\* Two sessions of one subject: the first was logged out, the second is
\* still valid.
C38_Witness ==
    /\ issued = 2
    /\ created[1].email = created[2].email
    /\ last.op = "logout" /\ last.token = 1
    /\ verify_session(1) = None
    /\ verify_session(2) = created[2].email

(***************************************************************************)
(* A report request ends, checked under SpecReportFair.                    *)
(***************************************************************************)
\* n: the therapist messages of the history.
TherapistMessages == {j \in DOMAIN rep_history : rep_history[j].role = "user"}

RECURSIVE SumOf(_)
SumOf(waits) == IF waits = <<>> THEN 0 ELSE Head(waits) + SumOf(Tail(waits))

ReportEnded == rep_pc \in {"done", "failed"}

C39_State ==
    /\ rep_calls.made <= 1 + 3 * Cardinality(TherapistMessages)
    /\ rep_calls.in_flight <= 1
    /\ rep_calls.in_flight = 1 <=> rep_pc \in {"main", "attempt"}
    /\ SumOf(cur.waits) <= 1 + 2
    /\ cur.calls <= max_retries

\* C39: when every model call returns or fails, generate_report for a
\* history with n therapist messages makes at most 1 + 3n model calls, never
\* has two of them in flight together, waits at most 1 s + 2 s of backoff
\* per utterance, and eventually ends.
C39_Terminates == [](C39_State) /\ <>ReportEnded

\* The request ended after the most calls three messages allow: the main
\* call and three attempts for each of three therapist messages.
C39_Witness ==
    /\ rep_pc = "done"
    /\ Len(rep_history) = MaxHistory
    /\ Cardinality(TherapistMessages) = MaxHistory
    /\ rep_calls = [made |-> 1 + 3 * MaxHistory, in_flight |-> 0]

====
